---- MODULE Spec2Model ----
(***************************************************************************)
(* BananaPod request orchestration: the failover runner, the fill-to-target *)
(* generator, the task queue and the signed-session authenticator.          *)
(***************************************************************************)
EXTENDS Integers, Sequences, FiniteSets, TLC

(***************************************************************************)
(* Bounds of the model.                                                     *)
(***************************************************************************)
MaxPlatforms == 3
MaxStart == 4
MaxFillPlatforms == 2
MaxImageCount == 5
MaxEnvAttempts == 6
MaxTasks == 3
MaxSessions == 1
MaxTicks == 2
MaxEntries == 2
MaxChecks == 2
MaxJobPlatforms == 2
MaxPolls == 2
MaxBuilds == 2
MaxFairTasks == 2
MaxFires == 2

(***************************************************************************)
(* Program constants.                                                       *)
(***************************************************************************)
MAX_IMAGE_COUNT == 4
DEFAULT_FILL_MAX_TOTAL_ATTEMPTS == 40
DEFAULT_TTL_SECONDS == 604800
TIMEOUT_MAX == 2147483647

PlatformIds == {"pA", "pB", "pC"}
Messages == {"timeout", "quota"}
Responses == {"image", "text"}

VARIABLES
  platforms,            \* GeminiRunner.platforms / GeminiAiService.platforms: sequence of platform ids
  clients,              \* GeminiRunner.clients: id -> position of the platform that built the client (0: none)
  operation,            \* runWithFailover argument
  startPlatformIndex,   \* runWithFailover argument
  i,                    \* runWithFailover loop counter
  errors,               \* runWithFailover errors[]
  calls,                \* history of runner(platform, client) invocations of the run
  inFlight,             \* loop counters of the runner calls made and not yet settled
  constructed,          \* platform id -> number of `new GoogleGenAI(...)` made for it by the process
  runState,             \* "idle" | "running" | "returned" | "thrown"
  runResult,            \* <<>> or <<value returned by runWithFailover>>
  runThrown             \* <<>> or <<error thrown by runWithFailover>>

fvars == <<platforms, clients, operation, startPlatformIndex, i, errors, calls, inFlight, constructed,
           runState, runResult, runThrown>>

VARIABLES
  imageCount,           \* request.imageCount: <<>> when absent, else <<n>>
  envMaxAttempts,       \* VITE_GEMINI_FILL_MAX_TOTAL_ATTEMPTS: <<>> when unset, else <<n>>
  generatedImages,      \* generateImageFromText generatedImages[]
  fillErrors,           \* GeminiAiService.generateImageFromText errors[]
  attempts,             \* GeminiAiService.generateImageFromText attempts
  tasks,                \* GeminiAiService.generateImageFromText tasks of the current round
  delayMs,              \* the backoff delay being slept, 0 when none
  imageIndex,           \* GeminiRunner.generateImageFromText loop counter i
  genState,             \* "idle" | "entry" | "await" | "backoff" | "returned" | "thrown"
  genThrown             \* <<>> or <<error thrown by generateImageFromText>>

gvars == <<imageCount, envMaxAttempts, generatedImages, fillErrors, attempts, tasks, delayMs,
           imageIndex, genState, genThrown>>

VARIABLES
  taskList,             \* TaskQueuePanel tasks: sequence of TaskItem
  nextTaskId,           \* the id the next dispatched task gets
  lastOp                \* the last task-queue request and whether it was accepted

tvars == <<taskList, nextTaskId, lastOp>>

VARIABLES
  authSecret,           \* process.env.BANANAPOD_AUTH_SECRET ("" when unset)
  adminPassword,        \* process.env.BANANAPOD_ADMIN_PASSWORD ("" when unset)
  now,                  \* Math.floor(Date.now() / 1000)
  ticks,                \* number of clock advances so far
  cookieJar,            \* the session tokens issued so far, with their issuance data
  lastLogin,            \* HTTP status of the last login response, 0 before any
  lastCheck,            \* <<>> or <<[token, result, at]>>: the last isLoggedIn call
  lastLogout            \* <<>> or <<the last logout response: its Set-Cookie, when, the tokens issued by then>>

avars == <<authSecret, adminPassword, now, ticks, cookieJar, lastLogin, lastCheck, lastLogout>>

VARIABLES
  configFile,           \* providers.gemini.platforms of the persisted JSON document
  pendingBody,          \* body.platforms of the upsert request being composed by the client
  regResponse           \* <<>> or <<the last registry call: its input, the file before, its outcome>>

rvars == <<configFile, pendingBody, regResponse>>

VARIABLES
  statusById,           \* GeminiMonitor.statusById: platform id -> <<>> or <<status>>
  checks,               \* the checkOnce activations: their platforms, next[] and position
  lastProbe,            \* platform id -> <<>> or <<the status built from its most recently resolved probe>>
  clock                 \* the number of checkOnce activations started (stands for nowIso)

mvars == <<statusById, checks, lastProbe, clock>>

VARIABLES
  requireAuthForAI,     \* REQUIRE_AUTH_FOR_AI (BANANAPOD_REQUIRE_AUTH_FOR_AI !== "0")
  lastRequest           \* <<>> or <<the last HTTP request, its response and what it caused>>

hvars == <<requireAuthForAI, lastRequest>>

VARIABLES
  countService,         \* the service whose operation received the request
  countInput,           \* request.imageCount as a JavaScript value
  countDesired,         \* <<>> or <<desiredCount>>
  countReturned,        \* <<>> or <<number of images in the result>>
  jobPlatforms,         \* createFailoverAiService platforms: sequence of platform ids
  jobPos,               \* position of the for-of loop over the platforms
  jobTask,              \* <<>> or <<taskId>> of the attempt under way
  jobPolls,             \* polls made by the attempt under way
  jobLog,               \* the upstream calls made so far: platform, kind, job id
  jobErrors,            \* errors[] of the failover wrapper
  jobState              \* "running" | "returned" | "thrown"

cvars == <<countService, countInput, countDesired, countReturned>>
jvars == <<jobPlatforms, jobPos, jobTask, jobPolls, jobLog, jobErrors, jobState>>
VARIABLES
  upsertRuns,           \* the upsertGeminiPlatforms activations: their input, what they read, their position
  upsertBase            \* the platform list of the document before the first of these activations

uvars == <<upsertRuns, upsertBase>>

VARIABLES
  lastUpstream          \* <<>> or <<the check and the upstream outcome of the probe handled last>>

pvars == <<lastUpstream>>

VARIABLES
  monitorTimer          \* GeminiMonitor.timer: <<>> when null, else <<the interval: its delay, its period, its ticks>>

ivars == <<monitorTimer>>
xvars == <<cvars, jvars, uvars, pvars, ivars>>

vars == <<fvars, gvars, tvars, avars, rvars, mvars, hvars, xvars>>

notF == <<gvars, tvars, avars, rvars, mvars, hvars, xvars>>
notG == <<fvars, tvars, avars, rvars, mvars, hvars, xvars>>
notFG == <<tvars, avars, rvars, mvars, hvars, xvars>>
notT == <<fvars, gvars, avars, rvars, mvars, hvars, xvars>>
notA == <<fvars, gvars, tvars, rvars, mvars, hvars, xvars>>
notR == <<fvars, gvars, tvars, avars, mvars, hvars, xvars>>
notM == <<fvars, gvars, tvars, avars, pendingBody, regResponse, hvars, xvars>>
notH == <<fvars, gvars, tvars, pendingBody, regResponse, checks, xvars>>
notC == <<fvars, gvars, tvars, avars, rvars, mvars, hvars, jvars, uvars, pvars, ivars>>
notJ == <<fvars, gvars, tvars, avars, rvars, mvars, hvars, cvars, uvars, pvars, ivars>>
notU == <<fvars, gvars, tvars, avars, pendingBody, regResponse, mvars, hvars, cvars, jvars, pvars, ivars>>
notP == <<fvars, gvars, tvars, avars, pendingBody, regResponse, hvars, cvars, jvars, uvars, ivars>>
notI == <<fvars, gvars, tvars, avars, pendingBody, regResponse, hvars, cvars, jvars, uvars, pvars>>

(***************************************************************************)
(* Helpers                                                                  *)
(***************************************************************************)
SeqsUpTo(S, lo, hi) == UNION {[1..n -> S] : n \in lo..hi}

Min2(a, b) == IF a <= b THEN a ELSE b
Max2(a, b) == IF a >= b THEN a ELSE b
MinOf(S) == CHOOSE x \in S : \A y \in S : x <= y

NoClients == [id \in PlatformIds |-> 0]

\* an Error object: message parts and the statusCode property (0 when not set)
MkError(kind, op, filled, details, statusCode, wrapped) ==
  [kind |-> kind, operation |-> op, filled |-> filled, details |-> details,
   statusCode |-> statusCode, wrapped |-> wrapped]

(***************************************************************************)
(* Failover runner (server/gemini.js GeminiRunner)                          *)
(***************************************************************************)
RotIndex_skipStart(start, k, count) == k % count

\* index = (startPlatformIndex + i) % count, 0-based
RotIndex(start, k, count) == (start + k) % count

\* the platform (1-based position in platforms) of the current iteration
CurrentPos == RotIndex(startPlatformIndex, i, Len(platforms)) + 1

\* getClient: the cached client of that id, else a client built for this platform
getClient(cache, pos) ==
  IF cache[platforms[pos]] # 0 THEN cache[platforms[pos]] ELSE pos

cacheAfterGetClient(cache, pos) ==
  IF cache[platforms[pos]] # 0 THEN cache ELSE [cache EXCEPT ![platforms[pos]] = pos]

\* getClient constructs a client exactly when the runner's Map has none for the id
constructedAfterGetClient(cache, pos) ==
  IF cache[platforms[pos]] # 0 THEN constructed ELSE [constructed EXCEPT ![platforms[pos]] = @ + 1]

AggregateDetails_dropLast(errs) ==
  [k \in 1..(Len(errs) - 1) |-> <<errs[k].platformId, errs[k].error>>]

\* errors.map((e) => `[${e.platformId}] ${errorToMessage(e.error)}`)
AggregateDetails(errs) ==
  [k \in 1..Len(errs) |-> <<errs[k].platformId, errs[k].error>>]

\* new Error(`${operation} failed on all platforms: ${details}`), statusCode 502
runnerAggregateError(op, errs) ==
  MkError("aggregate", op, <<>>, AggregateDetails(errs), 502, FALSE)

nextToCall_ahead(k, pending) == k + Cardinality(pending)

\* the loop counter of the next runner call: i, which moves on only in the
\* catch that follows `await runner(...)`
nextToCall(k, pending) == k

\* the loop body up to the await: getClient, then the runner is called
CallRunner ==
  /\ runState = "running"
  /\ LET k == nextToCall(i, inFlight)
     IN /\ k < Len(platforms)
        /\ k \notin inFlight
        /\ clients' = cacheAfterGetClient(clients, RotIndex(startPlatformIndex, k, Len(platforms)) + 1)
        /\ constructed' = constructedAfterGetClient(clients, RotIndex(startPlatformIndex, k, Len(platforms)) + 1)
        /\ inFlight' = inFlight \cup {k}
  /\ UNCHANGED <<platforms, operation, startPlatformIndex, i, errors, calls, runState, runResult, runThrown>>

\* one loop iteration whose runner call resolves
AttemptSucceeds(resp) ==
  /\ runState = "running"
  /\ i < Len(platforms)
  /\ i \in inFlight
  /\ LET pos == CurrentPos
         client == getClient(clients, pos)
     IN /\ clients' = cacheAfterGetClient(clients, pos)
        /\ calls' = Append(calls, [pos |-> pos, client |-> client, ok |-> TRUE])
        /\ runResult' = <<[pos |-> pos, client |-> client, response |-> resp]>>
        /\ runState' = "returned"
  /\ inFlight' = inFlight \ {i}
  /\ UNCHANGED <<platforms, operation, startPlatformIndex, i, errors, constructed, runThrown>>

\* one loop iteration whose runner call rejects
AttemptFails(msg) ==
  /\ runState = "running"
  /\ i < Len(platforms)
  /\ i \in inFlight
  /\ LET pos == CurrentPos
         client == getClient(clients, pos)
     IN /\ clients' = cacheAfterGetClient(clients, pos)
        /\ calls' = Append(calls, [pos |-> pos, client |-> client, ok |-> FALSE])
        /\ errors' = Append(errors, [platformId |-> platforms[pos], error |-> msg])
        /\ i' = i + 1
  /\ inFlight' = inFlight \ {i}
  /\ UNCHANGED <<platforms, operation, startPlatformIndex, constructed, runState, runResult, runThrown>>

\* loop exhausted: throw the aggregate error
ThrowAggregate ==
  /\ runState = "running"
  /\ i >= Len(platforms)
  /\ runThrown' = <<runnerAggregateError(operation, errors)>>
  /\ runState' = "thrown"
  /\ UNCHANGED <<platforms, clients, operation, startPlatformIndex, i, errors, calls, inFlight, constructed,
                 runResult>>

\* a call of runWithFailover(op, runner, start) on the runner's platforms
StartRun(op, start) ==
  /\ operation' = op
  /\ startPlatformIndex' = start
  /\ i' = 0
  /\ errors' = <<>>
  /\ calls' = <<>>
  /\ inFlight' = {}
  /\ runState' = "running"
  /\ runResult' = <<>>
  /\ runThrown' = <<>>
  /\ UNCHANGED <<platforms, clients, constructed>>

RunIdle ==
  /\ clients = NoClients
  /\ operation = ""
  /\ startPlatformIndex = 0
  /\ i = 0
  /\ errors = <<>>
  /\ calls = <<>>
  /\ inFlight = {}
  /\ constructed = NoClients
  /\ runState = "idle"
  /\ runResult = <<>>
  /\ runThrown = <<>>

TaskIdle ==
  /\ taskList = <<>>
  /\ nextTaskId = 1
  /\ lastOp = [op |-> "none", id |-> 0, accepted |-> FALSE]

MonitorIds == {<<"a">>, <<"b">>}
CheckSources == {"timer", "request"}
IdleCheck == [state |-> "idle", platforms |-> <<>>, next |-> <<>>, probed |-> <<>>, checkedAt |-> 0]

MonitorIdle ==
  /\ statusById = [id \in MonitorIds |-> <<>>]
  /\ checks = [c \in CheckSources |-> IdleCheck]
  /\ lastProbe = [id \in MonitorIds |-> <<>>]
  /\ clock = 0
  /\ lastUpstream = <<>>
  /\ monitorTimer = <<>>

CountIdle ==
  /\ countService = ""
  /\ countInput = <<>>
  /\ countDesired = <<>>
  /\ countReturned = <<>>

JobIdle ==
  /\ jobPlatforms = <<>>
  /\ jobPos = 0
  /\ jobTask = <<>>
  /\ jobPolls = 0
  /\ jobLog = <<>>
  /\ jobErrors = <<>>
  /\ jobState = "returned"

HttpIdle ==
  /\ requireAuthForAI = TRUE
  /\ lastRequest = <<>>

UpsertRequests == {"r1", "r2"}
NoUpsert == [pc |-> "idle", input |-> <<>>, merged |-> <<>>, error |-> <<>>, returned |-> <<>>]

RegistryIdle ==
  /\ configFile = <<>>
  /\ pendingBody = <<>>
  /\ regResponse = <<>>
  /\ upsertRuns = [r \in UpsertRequests |-> NoUpsert]
  /\ upsertBase = <<>>

AuthIdle ==
  /\ authSecret = ""
  /\ adminPassword = ""
  /\ now = 1
  /\ ticks = 0
  /\ cookieJar = {}
  /\ lastLogin = 0
  /\ lastCheck = <<>>
  /\ lastLogout = <<>>

GenIdle ==
  /\ imageCount = <<>>
  /\ envMaxAttempts = <<>>
  /\ generatedImages = <<>>
  /\ fillErrors = <<>>
  /\ attempts = 0
  /\ tasks = <<>>
  /\ delayMs = 0
  /\ imageIndex = 0
  /\ genState = "idle"
  /\ genThrown = <<>>

\* every component outside the one under study is at rest
RestIdle ==
  /\ platforms = <<>>
  /\ RunIdle
  /\ GenIdle

FailoverInit ==
  /\ platforms \in SeqsUpTo(PlatformIds, 1, MaxPlatforms)
  /\ clients = NoClients
  /\ operation = "editImage"
  /\ startPlatformIndex \in 0..MaxStart
  /\ i = 0
  /\ errors = <<>>
  /\ calls = <<>>
  /\ inFlight = {}
  /\ constructed = NoClients
  /\ runState = "running"
  /\ runResult = <<>>
  /\ runThrown = <<>>
  /\ GenIdle
  /\ TaskIdle
  /\ RegistryIdle
  /\ JobIdle
  /\ MonitorIdle
  /\ CountIdle
  /\ HttpIdle
  /\ AuthIdle

FailoverNext ==
  \/ CallRunner /\ UNCHANGED notF
  \/ \E resp \in Responses : AttemptSucceeds(resp) /\ UNCHANGED notF
  \/ \E msg \in Messages : AttemptFails(msg) /\ UNCHANGED notF
  \/ ThrowAggregate /\ UNCHANGED notF

SpecFailover == FailoverInit /\ [][FailoverNext]_vars

\* httpOptions.timeout of the generateContent call: the runners of editImage and
\* generateImageFromText pass none, only the monitor's probe call passes one
callTimeout(op) == IF op = "probe" THEN <<180000>> ELSE <<>>

\* the event loop runs every step of the program that is ready; whether and
\* when an upstream call settles is up to the platform
SpecFailoverFair ==
  /\ FailoverInit
  /\ [][FailoverNext]_vars
  /\ WF_vars(CallRunner /\ UNCHANGED notF)
  /\ WF_vars(ThrowAggregate /\ UNCHANGED notF)

\* an AI route handles a request: `new GeminiRunner({ platforms })` with an
\* empty clients Map, then runner.editImage(body) enters runWithFailover
RouteRun ==
  /\ runState \in {"idle", "returned", "thrown"}
  /\ \A id \in PlatformIds : constructed[id] < MaxBuilds
  /\ clients' = NoClients
  /\ operation' = "editImage"
  /\ startPlatformIndex' = 0
  /\ i' = 0
  /\ errors' = <<>>
  /\ calls' = <<>>
  /\ inFlight' = {}
  /\ runState' = "running"
  /\ runResult' = <<>>
  /\ runThrown' = <<>>
  /\ UNCHANGED <<platforms, constructed>>

RequestsInit ==
  /\ platforms \in SeqsUpTo(PlatformIds, 1, MaxFillPlatforms)
  /\ RunIdle
  /\ GenIdle
  /\ TaskIdle
  /\ RegistryIdle
  /\ JobIdle
  /\ MonitorIdle
  /\ CountIdle
  /\ HttpIdle
  /\ AuthIdle

RequestsNext ==
  \/ RouteRun /\ UNCHANGED notF
  \/ CallRunner /\ UNCHANGED notF
  \/ \E resp \in Responses : AttemptSucceeds(resp) /\ UNCHANGED notF
  \/ \E msg \in Messages : AttemptFails(msg) /\ UNCHANGED notF
  \/ ThrowAggregate /\ UNCHANGED notF

SpecRequests == RequestsInit /\ [][RequestsNext]_vars

(***************************************************************************)
(* Fill-to-target generator (services/ai/registry.ts GeminiAiService)       *)
(***************************************************************************)
\* typeof imageCount === "number" ? Math.max(1, Math.min(4, Math.floor(imageCount))) : 1
DesiredCount(ic) ==
  IF ic = <<>> THEN 1 ELSE Max2(1, Min2(MAX_IMAGE_COUNT, ic[1]))

\* Number.parseInt(readEnv(...) ?? "", 10) || DEFAULT_FILL_MAX_TOTAL_ATTEMPTS
MaxTotalAttempts(env) ==
  IF env = <<>> \/ env[1] = 0 THEN DEFAULT_FILL_MAX_TOTAL_ATTEMPTS ELSE env[1]

\* registry.ts buildAggregateError: no statusCode is set
buildAggregateError(op, errs) ==
  MkError("aggregate", op, <<>>, AggregateDetails(errs), 0, FALSE)

\* the outer catch: new Error(`Gemini API Error: ${error.message}`)
wrapGeminiError(e) ==
  MkError(e.kind, e.operation, e.filled, e.details, 0, TRUE)

\* `generateImageFromText (filled ${generatedImages.length}/${desiredCount})`
fillAggregateError(gen, errs) ==
  LET e == buildAggregateError("generateImageFromText",
             IF Len(errs) > 0 THEN errs
             ELSE <<[platformId |-> "unknown", error |-> "unknown error"]>>)
  IN MkError(e.kind, e.operation, <<Len(gen), DesiredCount(imageCount)>>, e.details, 0, FALSE)

configError == MkError("config", "generateImageFromText", <<>>, <<>>, 0, FALSE)

\* startPlatformIndex = (attempts + idx) % this.platforms.length
fillStartIndex(att, idx, count) == (att + idx) % count

canLaunch_untilExhausted(att, parallel, maxTotal) == att < maxTotal

\* the negation of `if (attempts + parallel > maxTotalAttempts) break`
canLaunch(att, parallel, maxTotal) == ~(att + parallel > maxTotal)

\* the loop head, evaluated with the given locals: launch a round, or leave the loop
RoundHead(gen, att, errs) ==
  LET desired == DesiredCount(imageCount)
      remaining == desired - Len(gen)
      parallel == Min2(remaining, desired)
  IN IF Len(gen) < desired /\ canLaunch(att, parallel, MaxTotalAttempts(envMaxAttempts))
     THEN /\ tasks' = [idx \in 1..parallel |->
                        [start |-> fillStartIndex(att, idx - 1, Len(platforms)),
                         status |-> "pending", pos |-> 0, reason |-> ""]]
          /\ genState' = "await"
          /\ genThrown' = <<>>
     ELSE /\ tasks' = <<>>
          /\ IF Len(gen) < desired
             THEN /\ genState' = "thrown"
                  /\ genThrown' = <<wrapGeminiError(fillAggregateError(gen, errs))>>
             ELSE /\ genState' = "returned"
                  /\ genThrown' = <<>>

\* entry of generateImageFromText up to its first await
FillStart ==
  /\ genState = "entry"
  /\ IF MaxTotalAttempts(envMaxAttempts) < DesiredCount(imageCount)
     THEN /\ genState' = "thrown"
          /\ genThrown' = <<wrapGeminiError(configError)>>
          /\ tasks' = <<>>
     ELSE RoundHead(<<>>, 0, <<>>)
  /\ generatedImages' = <<>>
  /\ fillErrors' = <<>>
  /\ attempts' = 0
  /\ UNCHANGED <<imageCount, envMaxAttempts, delayMs, imageIndex>>

\* the platform (1-based) whose call resolves first in rotation from start, 0 when all reject
FirstResolved(start, outcome) ==
  LET n == Len(outcome)
      ks == {k \in 0..(n - 1) : outcome[RotIndex(start, k, n) + 1] # "fail"}
  IN IF ks = {} THEN 0 ELSE RotIndex(start, MinOf(ks), n) + 1

\* one task of the round settles: runWithFailover from its start index, then the image check
SettleTask(idx, outcome) ==
  /\ genState = "await"
  /\ idx \in 1..Len(tasks)
  /\ tasks[idx].status = "pending"
  /\ LET pos == FirstResolved(tasks[idx].start, outcome)
     IN tasks' = [tasks EXCEPT ![idx] =
          IF pos = 0
          THEN [@ EXCEPT !.status = "rejected", !.reason = "all platforms failed"]
          ELSE IF outcome[pos] = "text"
          THEN [@ EXCEPT !.status = "rejected", !.pos = pos, !.reason = "no image data"]
          ELSE [@ EXCEPT !.status = "fulfilled", !.pos = pos]]
  /\ UNCHANGED <<imageCount, envMaxAttempts, generatedImages, fillErrors, attempts, delayMs,
                 imageIndex, genState, genThrown>>

fulfilledOf(ts) ==
  LET F == SelectSeq(ts, LAMBDA t : t.status = "fulfilled")
  IN [k \in 1..Len(F) |-> [pos |-> F[k].pos]]

rejectedOf(ts) ==
  LET R == SelectSeq(ts, LAMBDA t : t.status = "rejected")
  IN [k \in 1..Len(R) |-> [platformId |-> "unknown", error |-> "reason"]]

backoffDelay(att) == Min2(2000, 200 + att * 50)

\* Promise.allSettled resolves: collect, then back off or leave the loop
RoundSettled ==
  /\ genState = "await"
  /\ \A k \in 1..Len(tasks) : tasks[k].status # "pending"
  /\ LET gen == generatedImages \o fulfilledOf(tasks)
         errs == fillErrors \o rejectedOf(tasks)
         att == attempts + Len(tasks)
     IN /\ generatedImages' = gen
        /\ fillErrors' = errs
        /\ attempts' = att
        /\ IF Len(gen) < DesiredCount(imageCount)
           THEN /\ delayMs' = backoffDelay(att)
                /\ genState' = "backoff"
                /\ tasks' = <<>>
                /\ genThrown' = <<>>
           ELSE /\ delayMs' = 0
                /\ RoundHead(gen, att, errs)
  /\ UNCHANGED <<imageCount, envMaxAttempts, imageIndex>>

\* the backoff timer fires: back to the loop head
BackoffElapsed ==
  /\ genState = "backoff"
  /\ delayMs' = 0
  /\ RoundHead(generatedImages, attempts, fillErrors)
  /\ UNCHANGED <<imageCount, envMaxAttempts, generatedImages, fillErrors, attempts, imageIndex>>

FillInit ==
  /\ platforms \in {[k \in 1..n |-> <<"pA", "pB", "pC", "pD">>[k]] : n \in 1..MaxFillPlatforms}
  /\ RunIdle
  /\ imageCount \in {<<>>} \cup {<<n>> : n \in (-1)..MaxImageCount}
  /\ envMaxAttempts \in {<<>>} \cup {<<n>> : n \in (-1)..MaxEnvAttempts}
  /\ generatedImages = <<>>
  /\ fillErrors = <<>>
  /\ attempts = 0
  /\ tasks = <<>>
  /\ delayMs = 0
  /\ imageIndex = 0
  /\ genState = "entry"
  /\ genThrown = <<>>
  /\ TaskIdle
  /\ RegistryIdle
  /\ JobIdle
  /\ MonitorIdle
  /\ CountIdle
  /\ HttpIdle
  /\ AuthIdle

FillNext ==
  \/ FillStart /\ UNCHANGED notG
  \/ \E idx \in 1..MAX_IMAGE_COUNT : \E outcome \in [1..Len(platforms) -> {"image", "text", "fail"}] :
       SettleTask(idx, outcome) /\ UNCHANGED notG
  \/ RoundSettled /\ UNCHANGED notG
  \/ BackoffElapsed /\ UNCHANGED notG

SpecFill == FillInit /\ [][FillNext]_vars

(***************************************************************************)
(* Server text-to-image (server/gemini.js GeminiRunner.generateImageFromText)*)
(***************************************************************************)
\* new Error("Gemini response did not include image data."), statusCode 502
noImageError == MkError("noimage", "generateImageFromText", <<>>, <<>>, 502, FALSE)

\* startPlatformIndex = this.platforms.length ? i % this.platforms.length : 0
serverStartIndex(idx, count) == IF count # 0 THEN idx % count ELSE 0

\* entry of generateImageFromText up to the first await in runWithFailover
ServerStart ==
  /\ genState = "entry"
  /\ generatedImages' = <<>>
  /\ imageIndex' = 0
  /\ genState' = "await"
  /\ StartRun("generateImageFromText", serverStartIndex(0, Len(platforms)))
  /\ UNCHANGED <<imageCount, envMaxAttempts, fillErrors, attempts, tasks, delayMs, genThrown>>

\* runWithFailover returned a response: pick the first image, push it, go on or return
ServerRunReturned ==
  /\ genState = "await"
  /\ runState = "returned"
  /\ IF runResult[1].response # "image"
     THEN /\ genState' = "thrown"
          /\ genThrown' = <<noImageError>>
          /\ UNCHANGED <<generatedImages, imageIndex, fvars>>
     ELSE /\ generatedImages' = Append(generatedImages, [pos |-> runResult[1].pos])
          /\ imageIndex' = imageIndex + 1
          /\ genThrown' = <<>>
          /\ IF imageIndex + 1 < DesiredCount(imageCount)
             THEN /\ genState' = "await"
                  /\ StartRun("generateImageFromText", serverStartIndex(imageIndex + 1, Len(platforms)))
             ELSE /\ genState' = "returned"
                  /\ UNCHANGED fvars
  /\ UNCHANGED <<imageCount, envMaxAttempts, fillErrors, attempts, tasks, delayMs>>

\* runWithFailover threw: the error leaves generateImageFromText as it is
ServerRunThrown ==
  /\ genState = "await"
  /\ runState = "thrown"
  /\ genState' = "thrown"
  /\ genThrown' = runThrown
  /\ UNCHANGED <<imageCount, envMaxAttempts, generatedImages, fillErrors, attempts, tasks, delayMs,
                 imageIndex, fvars>>

ServerInit ==
  /\ platforms \in SeqsUpTo(PlatformIds, 1, MaxFillPlatforms)
  /\ RunIdle
  /\ imageCount \in {<<>>} \cup {<<n>> : n \in (-1)..MaxImageCount}
  /\ envMaxAttempts = <<>>
  /\ generatedImages = <<>>
  /\ fillErrors = <<>>
  /\ attempts = 0
  /\ tasks = <<>>
  /\ delayMs = 0
  /\ imageIndex = 0
  /\ genState = "entry"
  /\ genThrown = <<>>
  /\ TaskIdle
  /\ RegistryIdle
  /\ JobIdle
  /\ MonitorIdle
  /\ CountIdle
  /\ HttpIdle
  /\ AuthIdle

ServerNext ==
  \/ ServerStart /\ UNCHANGED notFG
  \/ CallRunner /\ UNCHANGED notF
  \/ \E resp \in Responses : AttemptSucceeds(resp) /\ UNCHANGED notF
  \/ \E msg \in Messages : AttemptFails(msg) /\ UNCHANGED notF
  \/ ThrowAggregate /\ UNCHANGED notF
  \/ ServerRunReturned /\ UNCHANGED notFG
  \/ ServerRunThrown /\ UNCHANGED notFG

SpecServerGen == ServerInit /\ [][ServerNext]_vars

(***************************************************************************)
(* Task queue (TaskQueuePanel and the handlers it is given)                 *)
(***************************************************************************)
TaskIds == 1..MaxTasks
TaskKinds == {"image.generate", "image.edit"}

\* ["succeeded", "failed", "canceled"].includes(t.status)
isFinished_withoutCanceled(t) == t.status \in {"succeeded", "failed"}

isFinished(t) == t.status \in {"succeeded", "failed", "canceled"}

\* tasks.some(...)
hasFinished(ts) == \E k \in 1..Len(ts) : isFinished(ts[k])

canCancel_always(t) == TRUE

canCancel_unfinished(t) == t.status \in {"queued", "running"}

canCancel_started(t) == t.status = "running"

\* task.status === "queued"
canCancel(t) == t.status = "queued"

canRemove_notRunning(t) == t.status # "running"

\* task.status !== "running" && task.status !== "queued"
canRemove(t) == t.status # "running" /\ t.status # "queued"

HasTask(ts, id) == \E k \in 1..Len(ts) : ts[k].id = id
TaskOf(ts, id) == ts[CHOOSE k \in 1..Len(ts) : ts[k].id = id]

withStatus(ts, id, st, err) ==
  [k \in 1..Len(ts) |-> IF ts[k].id = id THEN [ts[k] EXCEPT !.status = st, !.error = err] ELSE ts[k]]

\* the UI dispatches a logical request: a queued entry is created
DispatchTask(kind) ==
  /\ nextTaskId <= MaxTasks
  /\ taskList' = Append(taskList, [id |-> nextTaskId, kind |-> kind, status |-> "queued", error |-> ""])
  /\ nextTaskId' = nextTaskId + 1
  /\ lastOp' = [op |-> "dispatch", id |-> nextTaskId, accepted |-> TRUE]

\* the dispatcher marks a queued task running
StartTask(id) ==
  /\ IF HasTask(taskList, id) /\ TaskOf(taskList, id).status = "queued"
     THEN /\ taskList' = withStatus(taskList, id, "running", "")
          /\ lastOp' = [op |-> "start", id |-> id, accepted |-> TRUE]
     ELSE /\ taskList' = taskList
          /\ lastOp' = [op |-> "start", id |-> id, accepted |-> FALSE]
  /\ UNCHANGED nextTaskId

\* the operation of a running task returns a result (ok) or raises
FinishTask(id, ok) ==
  /\ IF HasTask(taskList, id) /\ TaskOf(taskList, id).status = "running"
     THEN /\ taskList' = IF ok THEN withStatus(taskList, id, "succeeded", "")
                         ELSE withStatus(taskList, id, "failed", "aggregate message")
          /\ lastOp' = [op |-> IF ok THEN "succeed" ELSE "fail", id |-> id, accepted |-> TRUE]
     ELSE /\ taskList' = taskList
          /\ lastOp' = [op |-> IF ok THEN "succeed" ELSE "fail", id |-> id, accepted |-> FALSE]
  /\ UNCHANGED nextTaskId

\* onCancelQueued(task.id), offered only when canCancel
CancelQueued(id) ==
  /\ IF HasTask(taskList, id) /\ canCancel(TaskOf(taskList, id))
     THEN /\ taskList' = withStatus(taskList, id, "canceled", TaskOf(taskList, id).error)
          /\ lastOp' = [op |-> "cancel", id |-> id, accepted |-> TRUE]
     ELSE /\ taskList' = taskList
          /\ lastOp' = [op |-> "cancel", id |-> id, accepted |-> FALSE]
  /\ UNCHANGED nextTaskId

\* onRemoveTask(task.id), offered only when canRemove
RemoveTask(id) ==
  /\ IF HasTask(taskList, id) /\ canRemove(TaskOf(taskList, id))
     THEN /\ taskList' = SelectSeq(taskList, LAMBDA t : t.id # id)
          /\ lastOp' = [op |-> "remove", id |-> id, accepted |-> TRUE]
     ELSE /\ taskList' = taskList
          /\ lastOp' = [op |-> "remove", id |-> id, accepted |-> FALSE]
  /\ UNCHANGED nextTaskId

\* onClearFinished, disabled unless hasFinished
ClearFinished ==
  /\ IF hasFinished(taskList)
     THEN /\ taskList' = SelectSeq(taskList, LAMBDA t : ~isFinished(t))
          /\ lastOp' = [op |-> "clear", id |-> 0, accepted |-> TRUE]
     ELSE /\ taskList' = taskList
          /\ lastOp' = [op |-> "clear", id |-> 0, accepted |-> FALSE]
  /\ UNCHANGED nextTaskId

TaskInit ==
  /\ platforms = <<>>
  /\ RunIdle
  /\ GenIdle
  /\ TaskIdle
  /\ RegistryIdle
  /\ JobIdle
  /\ MonitorIdle
  /\ CountIdle
  /\ HttpIdle
  /\ AuthIdle

TaskNext ==
  \/ \E kind \in TaskKinds : DispatchTask(kind) /\ UNCHANGED notT
  \/ \E id \in TaskIds : StartTask(id) /\ UNCHANGED notT
  \/ \E id \in TaskIds : \E ok \in BOOLEAN : FinishTask(id, ok) /\ UNCHANGED notT
  \/ \E id \in TaskIds : CancelQueued(id) /\ UNCHANGED notT
  \/ \E id \in TaskIds : RemoveTask(id) /\ UNCHANGED notT
  \/ ClearFinished /\ UNCHANGED notT

SpecTasks == TaskInit /\ [][TaskNext]_vars

\* the operation of the running task `id` settles: its upstream calls have
\* all completed or timed out and the result or the error flows back
OperationSettles(id) ==
  /\ HasTask(taskList, id)
  /\ TaskOf(taskList, id).status = "running"
  /\ \E ok \in BOOLEAN : FinishTask(id, ok)

FairTaskNext ==
  \/ \E kind \in TaskKinds : nextTaskId <= MaxFairTasks /\ DispatchTask(kind) /\ UNCHANGED notT
  \/ \E id \in TaskIds : StartTask(id) /\ UNCHANGED notT
  \/ \E id \in TaskIds : \E ok \in BOOLEAN : FinishTask(id, ok) /\ UNCHANGED notT
  \/ \E id \in TaskIds : CancelQueued(id) /\ UNCHANGED notT
  \/ \E id \in TaskIds : RemoveTask(id) /\ UNCHANGED notT
  \/ ClearFinished /\ UNCHANGED notT

\* the task queue when every operation that was started settles
SpecTasksFair ==
  /\ TaskInit
  /\ [][FairTaskNext]_vars
  /\ \A id \in TaskIds : WF_vars(OperationSettles(id) /\ UNCHANGED notT)

(***************************************************************************)
(* Session authenticator (server/auth.js)                                   *)
(***************************************************************************)
Secrets == {"", "k1"}
Keys == {"k1", "pw"}
Passwords == {"", "pw"}
TickSteps == {1, DEFAULT_TTL_SECONDS - 1}

\* A token is a sequence of segments: the "." separator, a base64url segment
\* that decodes to a JSON object, a segment that decodes to no JSON, or the
\* base64url HMAC-SHA256 digest of a segment sequence under a key.
Seg(t, key, over, json) == [t |-> t, key |-> key, over |-> over, json |-> json]
NoJson == [iat |-> 0, exp |-> <<>>]
Dot == Seg("dot", "", <<>>, NoJson)
Raw == Seg("raw", "", <<>>, NoJson)

\* base64UrlEncode(JSON.stringify(payloadObj))
base64UrlEncode(payloadObj) == <<Seg("b64", "", <<>>, payloadObj)>>

sign_ignoreSecret(secret, payload) == <<Seg("mac", "", payload, NoJson)>>

\* base64UrlEncode(createHmac("sha256", secret).update(payload).digest())
sign(secret, payload) == <<Seg("mac", secret, payload, NoJson)>>

getSecret_passwordFirst ==
  IF adminPassword # "" THEN adminPassword
  ELSE IF authSecret # "" THEN authSecret
  ELSE ""

getSecret ==
  IF authSecret # "" THEN authSecret
  ELSE IF adminPassword # "" THEN adminPassword
  ELSE ""

\* the token built by createSessionCookie at time t (the secret is non-empty)
sessionToken(secret, t, ttlSeconds) ==
  LET payload == base64UrlEncode([iat |-> t, exp |-> <<t + ttlSeconds>>])
  IN payload \o <<Dot>> \o sign(secret, payload)

\* token.indexOf("."), -1 when there is none
indexOfDot(tok) ==
  IF \E k \in 1..Len(tok) : tok[k].t = "dot"
  THEN MinOf({k \in 1..Len(tok) : tok[k].t = "dot"}) - 1
  ELSE -1

expiresAfter_inclusive(exp, t) == exp >= t

\* exp > Math.floor(Date.now() / 1000)
expiresAfter(exp, t) == exp > t

\* JSON.parse(base64UrlDecodeToString(payload)), then the typeof data.exp check
decodedExp(payload) ==
  IF Len(payload) = 1 /\ payload[1].t = "b64"
  THEN <<IF payload[1].json.exp # <<>> THEN payload[1].json.exp[1] ELSE 0>>
  ELSE <<>>

isLoggedIn_untilLogout(tok) ==
  LET secret == getSecret
      dot == indexOfDot(tok)
      payload == SubSeq(tok, 1, dot)
      sig == SubSeq(tok, dot + 2, Len(tok))
  IN IF secret = "" THEN FALSE
     ELSE IF tok = <<>> THEN FALSE
     ELSE IF lastLogout # <<>> /\ \E c \in lastLogout[1].issued : c.token = tok THEN FALSE
     ELSE IF dot <= 0 THEN FALSE
     ELSE IF sig # sign(secret, payload) THEN FALSE
     ELSE IF decodedExp(payload) = <<>> THEN FALSE
     ELSE expiresAfter(decodedExp(payload)[1], now)

\* isLoggedIn(req) where cookies[COOKIE_NAME] is tok (<<>> when there is no cookie)
isLoggedIn(tok) ==
  LET secret == getSecret
      dot == indexOfDot(tok)
      payload == SubSeq(tok, 1, dot)
      sig == SubSeq(tok, dot + 2, Len(tok))
  IN IF secret = "" THEN FALSE
     ELSE IF tok = <<>> THEN FALSE
     ELSE IF dot <= 0 THEN FALSE
     ELSE IF sig # sign(secret, payload) THEN FALSE
     ELSE IF decodedExp(payload) = <<>> THEN FALSE
     ELSE expiresAfter(decodedExp(payload)[1], now)

\* POST /api/auth/login: verifyPassword, then createSessionCookie()
Login(password) ==
  /\ IF adminPassword = ""
     THEN /\ lastLogin' = 500
          /\ UNCHANGED cookieJar
     ELSE IF password # adminPassword
     THEN /\ lastLogin' = 401
          /\ UNCHANGED cookieJar
     ELSE IF getSecret = ""
     THEN /\ lastLogin' = 500
          /\ UNCHANGED cookieJar
     ELSE LET entry == [token |-> sessionToken(getSecret, now, DEFAULT_TTL_SECONDS),
                        iat |-> now, ttl |-> DEFAULT_TTL_SECONDS, secret |-> getSecret]
          IN /\ entry \in cookieJar \/ Cardinality(cookieJar) < MaxSessions
             /\ lastLogin' = 200
             /\ cookieJar' = cookieJar \cup {entry}
  /\ UNCHANGED <<authSecret, adminPassword, now, ticks, lastCheck, lastLogout>>

\* clearSessionCookie(): `bp_session=; HttpOnly; Path=/; SameSite=Lax; Max-Age=0`
clearSessionCookie == [name |-> "bp_session", value |-> <<>>, maxAge |-> 0]

\* POST /api/auth/logout: json(res, 200, { ok: true }, { "Set-Cookie": clearSessionCookie() })
Logout ==
  /\ lastLogout' = <<[setCookie |-> clearSessionCookie, at |-> now, issued |-> cookieJar]>>
  /\ UNCHANGED <<authSecret, adminPassword, now, ticks, cookieJar, lastLogin, lastCheck>>

\* time passes
Tick(d) ==
  /\ ticks < MaxTicks
  /\ now' = now + d
  /\ ticks' = ticks + 1
  /\ UNCHANGED <<authSecret, adminPassword, cookieJar, lastLogin, lastCheck, lastLogout>>

\* the operator restarts the server with another environment
SetEnv(secret, password) ==
  /\ <<secret, password>> # <<authSecret, adminPassword>>
  /\ authSecret' = secret
  /\ adminPassword' = password
  /\ UNCHANGED <<now, ticks, cookieJar, lastLogin, lastCheck, lastLogout>>

\* the tokens a client can present: issued ones and what can be made of them
altered(tok) ==
  LET obj == tok[1].json
  IN base64UrlEncode([iat |-> obj.iat, exp |-> <<obj.exp[1] + DEFAULT_TTL_SECONDS>>])

Presentable ==
  {<<>>, <<Raw>>, <<Dot>>}
  \cup UNION {
       {Raw2 \o <<Dot>> \o sign(k, Raw2) : Raw2 \in {<<>>, <<Raw>>, base64UrlEncode(NoJson),
                                                      base64UrlEncode([iat |-> now, exp |-> <<now + 1>>])}}
       : k \in Keys}
  \cup UNION {
       {c.token,
        altered(c.token) \o <<Dot>> \o sign(c.secret, SubSeq(c.token, 1, 1)),
        SubSeq(c.token, 1, 1),
        c.token \o <<Dot, Raw>>}
       \cup {SubSeq(c.token, 1, 1) \o <<Dot>> \o sign(k, SubSeq(c.token, 1, 1)) : k \in Keys}
       \cup {altered(c.token) \o <<Dot>> \o sign(k, altered(c.token)) : k \in Keys}
       : c \in cookieJar}

\* a request carrying tok reaches isLoggedIn
CheckLogin(tok) ==
  /\ lastCheck' = <<[token |-> tok, result |-> isLoggedIn(tok), at |-> now, secret |-> getSecret]>>
  /\ UNCHANGED <<authSecret, adminPassword, now, ticks, cookieJar, lastLogin, lastLogout>>

AuthInit ==
  /\ platforms = <<>>
  /\ RunIdle
  /\ GenIdle
  /\ TaskIdle
  /\ RegistryIdle
  /\ JobIdle
  /\ MonitorIdle
  /\ CountIdle
  /\ HttpIdle
  /\ authSecret \in Secrets
  /\ adminPassword \in Passwords
  /\ now = 1
  /\ ticks = 0
  /\ cookieJar = {}
  /\ lastLogin = 0
  /\ lastCheck = <<>>
  /\ lastLogout = <<>>

AuthNext ==
  \/ \E password \in Passwords \cup {"guess"} : Login(password) /\ UNCHANGED notA
  \/ \E d \in TickSteps : Tick(d) /\ UNCHANGED notA
  \/ \E secret \in Secrets : \E password \in Passwords : SetEnv(secret, password) /\ UNCHANGED notA
  \/ \E tok \in Presentable : CheckLogin(tok) /\ UNCHANGED notA

SpecAuth == AuthInit /\ [][AuthNext]_vars

\* the cookies a client holds or has held: none, or a token it was issued
HeldCookies == {<<>>} \cup {c.token : c \in cookieJar}

\* the authenticator with the logout route
SessionsNext ==
  \/ \E password \in Passwords \cup {"guess"} : Login(password) /\ UNCHANGED notA
  \/ \E d \in TickSteps : Tick(d) /\ UNCHANGED notA
  \/ \E secret \in Secrets : \E password \in Passwords : SetEnv(secret, password) /\ UNCHANGED notA
  \/ \E tok \in HeldCookies : CheckLogin(tok) /\ UNCHANGED notA
  \/ Logout /\ UNCHANGED notA

SpecSessions == AuthInit /\ [][SessionsNext]_vars

(***************************************************************************)
(* Platform registry (server/config.js)                                     *)
(* Strings are sequences of characters; an input field is <<>> when it is   *)
(* missing or not a string and <<s>> when it is the string s.               *)
(***************************************************************************)
Stars(n) == [k \in 1..n |-> "*"]
Digits == <<"1", "2", "3", "4", "5">>

KeyShort == <<"s", "k", "-", "1", "2", "3", "4", "5">>
KeyLong == <<"s", "k", "-", "1", "2", "3", "4", "5", "6">>

\* the entries a client puts into an upsert body
EntryInputs ==
  {[id |-> id, baseUrl |-> <<<<"u">>>>, model |-> <<<<"m">>>>, apiKey |-> k] :
     id \in {<<>>, <<<<"a">>>>}, k \in {<<>>, <<KeyShort>>, <<KeyLong \o <<" ">>>>}}
  \cup {[id |-> id, baseUrl |-> <<<<>>>>, model |-> <<<<" ", "n">>>>, apiKey |-> <<KeyLong>>] :
     id \in {<<>>, <<<<"a">>>>}}
  \cup {[id |-> <<<<"a">>>>, baseUrl |-> <<>>, model |-> <<<<"m">>>>, apiKey |-> <<>>],
        [id |-> <<<<"a">>>>, baseUrl |-> <<<<"u">>>>, model |-> <<<<" ">>>>, apiKey |-> <<KeyLong>>]}

RECURSIVE trimStart(_)
trimStart(s) == IF s # <<>> /\ s[1] = " " THEN trimStart(Tail(s)) ELSE s

RECURSIVE trimEnd(_)
trimEnd(s) == IF s # <<>> /\ s[Len(s)] = " " THEN trimEnd(SubSeq(s, 1, Len(s) - 1)) ELSE s

\* String.prototype.trim
trim(s) == trimEnd(trimStart(s))

\* value.endsWith("/") ? value : `${value}/`
normalizeBaseUrl(value) ==
  IF value # <<>> /\ value[Len(value)] = "/" THEN value ELSE value \o <<"/">>

redactApiKey_noShortRule(value) ==
  IF value = <<>> THEN <<>>
  ELSE SubSeq(value, 1, Min2(4, Len(value))) \o Stars(4) \o SubSeq(value, Max2(1, Len(value) - 3), Len(value))

redactApiKey(value) ==
  IF value = <<>> THEN <<>>
  ELSE IF Len(value) <= 8 THEN Stars(8)
  ELSE SubSeq(value, 1, 4) \o Stars(4) \o SubSeq(value, Len(value) - 3, Len(value))

\* `gemini#${index + 1}:${baseUrl}|${model}`
platformId(baseUrl, model, index) ==
  <<"gemini#", Digits[index + 1], ":">> \o baseUrl \o <<"|">> \o model

\* the object coerceGeminiPlatforms maps one raw entry to
coerceEntry(p) ==
  [id |-> IF p.id # <<>> THEN p.id[1] ELSE <<>>,
   baseUrl |-> IF p.baseUrl # <<>> THEN normalizeBaseUrl(trim(p.baseUrl[1])) ELSE <<>>,
   model |-> IF p.model # <<>> THEN trim(p.model[1]) ELSE <<>>,
   apiKey |-> IF p.apiKey # <<>> THEN trim(p.apiKey[1]) ELSE <<>>]

\* the errors[] of coerceGeminiPlatforms: the offending (index, field) pairs in order
RECURSIVE coerceErrorsFrom(_, _)
coerceErrorsFrom(ps, idx) ==
  IF idx >= Len(ps) THEN <<>>
  ELSE (IF ps[idx + 1].baseUrl = <<>> THEN <<[index |-> idx, field |-> "baseUrl"]>> ELSE <<>>)
       \o (IF ps[idx + 1].model = <<>> THEN <<[index |-> idx, field |-> "model"]>> ELSE <<>>)
       \o coerceErrorsFrom(ps, idx + 1)

\* an Error thrown by the registry: statusCode, the entries its message names
RegistryError(statusCode, kind, fields, id) ==
  [statusCode |-> statusCode, kind |-> kind, fields |-> fields, platformId |-> id]

\* coerceGeminiPlatforms(input): [error |-> <<>> or <<e>>, platforms |-> the coerced list]
coerceGeminiPlatforms(input) ==
  LET ps == [k \in 1..Len(input) |-> coerceEntry(input[k])]
      errs == coerceErrorsFrom(ps, 0)
  IN IF errs # <<>>
     THEN [error |-> <<RegistryError(400, "empty field", errs, <<>>)>>, platforms |-> <<>>]
     ELSE [error |-> <<>>,
           platforms |-> [k \in 1..Len(ps) |->
                            IF ps[k].id = <<>>
                            THEN [ps[k] EXCEPT !.id = platformId(ps[k].baseUrl, ps[k].model, k - 1)]
                            ELSE ps[k]]]

usable(p) == p.id # <<>> /\ p.baseUrl # <<>> /\ p.model # <<>> /\ p.apiKey # <<>>

\* getGeminiPlatforms() over the file content
getGeminiPlatforms(file) ==
  SelectSeq([k \in 1..Len(file) |-> [file[k] EXCEPT !.baseUrl = normalizeBaseUrl(file[k].baseUrl)]], usable)

\* getGeminiPlatformsRedacted() over the file content
getGeminiPlatformsRedacted(file) ==
  LET ps == getGeminiPlatforms(file)
  IN [k \in 1..Len(ps) |->
        [id |-> ps[k].id, baseUrl |-> ps[k].baseUrl, model |-> ps[k].model,
         apiKeyMasked |-> redactApiKey(ps[k].apiKey), hasApiKey |-> ps[k].apiKey # <<>>]]

\* new Map(currentPlatforms.map((p) => [p.id, p])).get(id): the last entry wins
currentById(current, id) ==
  LET hits == {k \in 1..Len(current) : current[k].id = id}
  IN IF hits = {} THEN <<>> ELSE <<current[CHOOSE k \in hits : \A j \in hits : j <= k]>>

mergedApiKey_submittedOnly(p, current) == p.apiKey

\* p.apiKey || current?.apiKey || ""
mergedApiKey(p, current) ==
  IF p.apiKey # <<>> THEN p.apiKey
  ELSE IF currentById(current, p.id) # <<>> THEN currentById(current, p.id)[1].apiKey
  ELSE <<>>

firstWithoutKey_last(next, current) ==
  LET bad == {k \in 1..Len(next) : mergedApiKey(next[k], current) = <<>>}
  IN IF bad = {} THEN 0 ELSE CHOOSE k \in bad : \A j \in bad : j <= k

\* the first entry at which nextPlatforms.map throws, 0 when none
firstWithoutKey(next, current) ==
  LET bad == {k \in 1..Len(next) : mergedApiKey(next[k], current) = <<>>}
  IN IF bad = {} THEN 0 ELSE MinOf(bad)

upsertGeminiPlatforms_keepOthers(input, file) ==
  LET coerced == coerceGeminiPlatforms(input)
      next == coerced.platforms
      current == getGeminiPlatforms(file)
      bad == firstWithoutKey(next, current)
      merged == [k \in 1..Len(next) |->
                   [id |-> next[k].id, baseUrl |-> next[k].baseUrl, model |-> next[k].model,
                    apiKey |-> mergedApiKey(next[k], current)]]
      others == SelectSeq(current, LAMBDA c : \A k \in 1..Len(next) : next[k].id # c.id)
  IN IF coerced.error # <<>>
     THEN [error |-> coerced.error, file |-> file, returned |-> <<>>]
     ELSE IF bad # 0
     THEN [error |-> <<RegistryError(400, "missing apiKey", <<>>, <<next[bad].id>>)>>,
           file |-> file, returned |-> <<>>]
     ELSE [error |-> <<>>, file |-> merged \o others, returned |-> getGeminiPlatformsRedacted(merged \o others)]

\* upsertGeminiPlatforms(platformsInput): the error thrown or the file written and the value returned
upsertGeminiPlatforms(input, file) ==
  LET coerced == coerceGeminiPlatforms(input)
      next == coerced.platforms
      current == getGeminiPlatforms(file)
      bad == firstWithoutKey(next, current)
      merged == [k \in 1..Len(next) |->
                   [id |-> next[k].id, baseUrl |-> next[k].baseUrl, model |-> next[k].model,
                    apiKey |-> mergedApiKey(next[k], current)]]
  IN IF coerced.error # <<>>
     THEN [error |-> coerced.error, file |-> file, returned |-> <<>>]
     ELSE IF bad # 0
     THEN [error |-> <<RegistryError(400, "missing apiKey", <<>>, <<next[bad].id>>)>>,
           file |-> file, returned |-> <<>>]
     ELSE [error |-> <<>>, file |-> merged, returned |-> getGeminiPlatformsRedacted(merged)]

\* the client adds one entry to the body of its next PUT
ComposeEntry(p) ==
  /\ Len(pendingBody) < MaxEntries
  /\ pendingBody' = Append(pendingBody, p)
  /\ regResponse' = <<>>
  /\ UNCHANGED configFile

\* PUT /api/admin/gemini/platforms with the composed body
Upsert ==
  LET out == upsertGeminiPlatforms(pendingBody, configFile)
  IN /\ configFile' = out.file
     /\ pendingBody' = <<>>
     /\ regResponse' = <<[op |-> "upsert", input |-> pendingBody, before |-> configFile,
                          error |-> out.error, returned |-> out.returned]>>

\* GET /api/admin/gemini/platforms
ListRedacted ==
  /\ pendingBody = <<>>
  /\ regResponse' = <<[op |-> "list", input |-> <<>>, before |-> configFile,
                       error |-> <<>>, returned |-> getGeminiPlatformsRedacted(configFile)]>>
  /\ UNCHANGED <<configFile, pendingBody>>

RegistryInit ==
  /\ platforms = <<>>
  /\ RunIdle
  /\ GenIdle
  /\ TaskIdle
  /\ RegistryIdle
  /\ JobIdle
  /\ MonitorIdle
  /\ CountIdle
  /\ HttpIdle
  /\ AuthIdle

RegistryNext ==
  \/ \E p \in EntryInputs : ComposeEntry(p) /\ UNCHANGED notR
  \/ Upsert /\ UNCHANGED notR
  \/ ListRedacted /\ UNCHANGED notR

SpecRegistry == RegistryInit /\ [][RegistryNext]_vars

\* the forms a client gives a base URL: no trailing slash, one, several
UrlForms == {<<"u">>, <<"u", "/">>, <<"u", "/", "/">>}

\* upsert entries that differ in their id and in the form of the URL, and one without a key
FormInputs ==
  {[id |-> id, baseUrl |-> <<url>>, model |-> <<<<"m">>>>, apiKey |-> <<KeyLong>>] :
     id \in {<<>>, <<<<"a">>>>, <<<<"b">>>>}, url \in UrlForms}
  \cup {[id |-> <<<<"a">>>>, baseUrl |-> <<<<"u">>>>, model |-> <<<<"m">>>>, apiKey |-> <<>>]}

FormsNext ==
  \/ \E p \in FormInputs : ComposeEntry(p) /\ UNCHANGED notR
  \/ Upsert /\ UNCHANGED notR
  \/ ListRedacted /\ UNCHANGED notR

SpecForms == RegistryInit /\ [][FormsNext]_vars

(***************************************************************************)
(* Health monitor (server/monitor.js)                                       *)
(***************************************************************************)
StoredPlatform(id, baseUrl) == [id |-> id, baseUrl |-> baseUrl, model |-> <<"m">>, apiKey |-> KeyLong]

\* contents the configuration file takes through accepted upserts
ConfigSamples ==
  {<<>>,
   <<StoredPlatform(<<"a">>, <<"u", "/">>)>>,
   <<StoredPlatform(<<"a">>, <<"u", "/">>), StoredPlatform(<<"b">>, <<"v", "/">>)>>,
   <<StoredPlatform(<<"b">>, <<"v", "/">>), StoredPlatform(<<"a">>, <<"u", "/">>)>>,
   <<StoredPlatform(<<"a">>, <<"u", "/">>), StoredPlatform(<<"a">>, <<"v", "/">>)>>}

\* what probePlatformGenerateImage resolves to: { ok, errorMessage } (it never rejects)
ProbeResults ==
  {[ok |-> TRUE, errorMessage |-> ""],
   [ok |-> FALSE, errorMessage |-> "Gemini response did not include image data."],
   [ok |-> FALSE, errorMessage |-> "probe timeout"]}

\* the status object checkOnce builds for one probed platform
statusOf(platform, result, nowIso) ==
  [id |-> platform.id, baseUrl |-> platform.baseUrl, model |-> platform.model,
   checkedAt |-> nowIso, ok |-> result.ok, errorMessage |-> result.errorMessage]

setStatus_keepFirst(map, status) ==
  IF map[status.id] = <<>> THEN [map EXCEPT ![status.id] = <<status>>] ELSE map

\* this.statusById.set(platform.id, status)
setStatus(map, status) == [map EXCEPT ![status.id] = <<status>>]

probeTarget_first(check) == check.platforms[1]

\* the platform the for-loop of checkOnce is at
probeTarget(check) == check.platforms[Len(check.next) + 1]

\* a.id.localeCompare(b.id) < 0 over the ids of the model
idBefore(x, y) == x = <<"a">> /\ y = <<"b">>

\* getStatusSnapshot(): the values of statusById sorted by id
getStatusSnapshot ==
  LET present == {id \in MonitorIds : statusById[id] # <<>>}
      rank(id) == Cardinality({other \in present : idBefore(other, id)}) + 1
  IN [k \in 1..Cardinality(present) |-> statusById[CHOOSE id \in present : rank(id) = k][1]]

\* checkOnce up to its first probe: load the platforms, take nowIso
CheckStart(c) ==
  /\ checks[c].state # "running"
  /\ clock < MaxChecks
  /\ clock' = clock + 1
  /\ checks' = [checks EXCEPT ![c] = [state |-> "running", platforms |-> getGeminiPlatforms(configFile),
                                      next |-> <<>>, probed |-> <<>>, checkedAt |-> clock + 1]]
  /\ UNCHANGED <<statusById, lastProbe, configFile>>

\* one turn of the for-loop: the probe of the next platform resolves
ProbeResolved(c, result) ==
  /\ checks[c].state = "running"
  /\ Len(checks[c].next) < Len(checks[c].platforms)
  /\ LET status == statusOf(probeTarget(checks[c]), result, checks[c].checkedAt)
     IN /\ statusById' = setStatus(statusById, status)
        /\ checks' = [checks EXCEPT ![c].next = Append(@, status),
                                    ![c].probed = Append(@, probeTarget(checks[c]))]
        /\ lastProbe' = [lastProbe EXCEPT ![probeTarget(checks[c]).id] =
                           <<[id |-> probeTarget(checks[c]).id, baseUrl |-> probeTarget(checks[c]).baseUrl,
                              model |-> probeTarget(checks[c]).model, checkedAt |-> checks[c].checkedAt,
                              ok |-> result.ok, errorMessage |-> result.errorMessage]>>]
  /\ UNCHANGED <<clock, configFile>>

\* return next
CheckReturn(c) ==
  /\ checks[c].state = "running"
  /\ Len(checks[c].next) = Len(checks[c].platforms)
  /\ checks' = [checks EXCEPT ![c].state = "returned"]
  /\ UNCHANGED <<statusById, lastProbe, clock, configFile>>

\* how client.models.generateContent ends for a probe: a response with or
\* without image parts, or an error with its name and message
UpstreamOutcomes ==
  {[kind |-> "response", images |-> 1, name |-> "", message |-> ""],
   [kind |-> "response", images |-> 0, name |-> "", message |-> ""],
   [kind |-> "error", images |-> 0, name |-> "TimeoutError", message |-> "aborted"],
   [kind |-> "error", images |-> 0, name |-> "Error", message |-> "quota exceeded"]}

\* /timeout/i.test(name) || /timed out|timeout/i.test(msg)
isTimeout(name, msg) == name \in {"TimeoutError", "timeout"} \/ msg \in {"request timed out", "timeout"}

probePlatformGenerateImage_anyResponse(upstream) ==
  IF upstream.kind = "response" THEN [ok |-> TRUE, errorMessage |-> ""]
  ELSE [ok |-> FALSE,
        errorMessage |-> IF isTimeout(upstream.name, upstream.message) THEN "probe timeout"
                         ELSE upstream.message]

\* probePlatformGenerateImage(platform, timeoutMs): { ok, errorMessage } for an upstream outcome
probePlatformGenerateImage(upstream) ==
  IF upstream.kind = "response"
  THEN IF upstream.images = 0
       THEN [ok |-> FALSE, errorMessage |-> "Gemini response did not include image data."]
       ELSE [ok |-> TRUE, errorMessage |-> ""]
  ELSE [ok |-> FALSE,
        errorMessage |-> IF isTimeout(upstream.name, upstream.message) THEN "probe timeout"
                         ELSE upstream.message]

\* one turn of the for-loop, from the upstream outcome of the awaited probe
ProbeHandled(c, upstream) ==
  /\ ProbeResolved(c, probePlatformGenerateImage(upstream))
  /\ lastUpstream' = <<[check |-> c, outcome |-> upstream]>>

\* an accepted upsert replaces the platform list
ConfigReplaced(file) ==
  /\ file # configFile
  /\ configFile' = file
  /\ UNCHANGED mvars

MonitorInit ==
  /\ platforms = <<>>
  /\ RunIdle
  /\ GenIdle
  /\ TaskIdle
  /\ RegistryIdle
  /\ JobIdle
  /\ MonitorIdle
  /\ CountIdle
  /\ HttpIdle
  /\ AuthIdle

MonitorNext ==
  \/ \E c \in CheckSources : CheckStart(c) /\ UNCHANGED notM
  \/ \E c \in CheckSources : \E result \in ProbeResults : ProbeResolved(c, result) /\ UNCHANGED notM
  \/ \E c \in CheckSources : CheckReturn(c) /\ UNCHANGED notM
  \/ \E file \in ConfigSamples : ConfigReplaced(file) /\ UNCHANGED notM

SpecMonitor == MonitorInit /\ [][MonitorNext]_vars

\* the platform lists the probed registry takes
ProbedConfigs ==
  {<<StoredPlatform(<<"a">>, <<"u", "/">>)>>,
   <<StoredPlatform(<<"a">>, <<"u", "/">>), StoredPlatform(<<"b">>, <<"v", "/">>)>>}

\* the monitor with the probes followed from their upstream outcome
ProbesNext ==
  \/ \E c \in CheckSources : CheckStart(c) /\ UNCHANGED notM
  \/ \E c \in CheckSources : \E upstream \in UpstreamOutcomes : ProbeHandled(c, upstream) /\ UNCHANGED notP
  \/ \E c \in CheckSources : CheckReturn(c) /\ UNCHANGED notM
  \/ \E file \in ProbedConfigs : ConfigReplaced(file) /\ UNCHANGED notM

SpecProbes == MonitorInit /\ [][ProbesNext]_vars

(***************************************************************************)
(* Concurrent upserts (server/config.js upsertGeminiPlatforms, whose awaits *)
(* on file reads and writes let two activations take turns)                 *)
(***************************************************************************)
RaceEntry(id, key) == [id |-> <<id>>, baseUrl |-> <<<<"u">>>>, model |-> <<<<"m">>>>, apiKey |-> key]

\* the bodies of the two PUT requests
RaceBodies ==
  {<<RaceEntry(<<"a">>, <<>>)>>, <<RaceEntry(<<"a">>, <<KeyShort>>)>>, <<RaceEntry(<<"b">>, <<KeyShort>>)>>,
   <<[id |-> <<<<"a">>>>, baseUrl |-> <<>>, model |-> <<<<"m">>>>, apiKey |-> <<>>]>>}

\* the document before the two requests: empty, or holding platform a with its key
RaceStores == {<<>>, <<StoredPlatform(<<"a">>, <<"u", "/">>)>>}

\* coerceGeminiPlatforms(platformsInput), then the call of getGeminiPlatforms() is awaited
UpsertBegin(r, input) ==
  /\ upsertRuns[r].pc = "idle"
  /\ LET coerced == coerceGeminiPlatforms(input)
     IN upsertRuns' = [upsertRuns EXCEPT ![r] =
          IF coerced.error # <<>>
          THEN [NoUpsert EXCEPT !.pc = "thrown", !.input = input, !.error = coerced.error]
          ELSE [NoUpsert EXCEPT !.pc = "readCurrent", !.input = input]]
  /\ UNCHANGED <<configFile, upsertBase>>

\* the file is read: currentPlatforms, the merge and its throw, then loadConfig() is awaited
UpsertMerge(r) ==
  /\ upsertRuns[r].pc = "readCurrent"
  /\ LET next == coerceGeminiPlatforms(upsertRuns[r].input).platforms
         current == getGeminiPlatforms(configFile)
         bad == firstWithoutKey(next, current)
         merged == [k \in 1..Len(next) |->
                      [id |-> next[k].id, baseUrl |-> next[k].baseUrl, model |-> next[k].model,
                       apiKey |-> mergedApiKey(next[k], current)]]
     IN upsertRuns' = [upsertRuns EXCEPT ![r] =
          IF bad # 0
          THEN [@ EXCEPT !.pc = "thrown",
                         !.error = <<RegistryError(400, "missing apiKey", <<>>, <<next[bad].id>>)>>]
          ELSE [@ EXCEPT !.pc = "loadConfig", !.merged = merged]]
  /\ UNCHANGED <<configFile, upsertBase>>

\* the document is read again, cfg.providers.gemini.platforms = merged, then saveConfig(cfg) is awaited
UpsertLoad(r) ==
  /\ upsertRuns[r].pc = "loadConfig"
  /\ upsertRuns' = [upsertRuns EXCEPT ![r].pc = "saveConfig"]
  /\ UNCHANGED <<configFile, upsertBase>>

\* fs.writeFile replaces the document, then getGeminiPlatformsRedacted() is awaited
UpsertSave(r) ==
  /\ upsertRuns[r].pc = "saveConfig"
  /\ configFile' = upsertRuns[r].merged
  /\ upsertRuns' = [upsertRuns EXCEPT ![r].pc = "list"]
  /\ UNCHANGED upsertBase

\* the file is read once more and the redacted list is returned
UpsertReturn(r) ==
  /\ upsertRuns[r].pc = "list"
  /\ upsertRuns' = [upsertRuns EXCEPT ![r].pc = "returned",
                                      ![r].returned = getGeminiPlatformsRedacted(configFile)]
  /\ UNCHANGED <<configFile, upsertBase>>

UpsertsInit ==
  /\ platforms = <<>>
  /\ RunIdle
  /\ GenIdle
  /\ TaskIdle
  /\ JobIdle
  /\ MonitorIdle
  /\ CountIdle
  /\ HttpIdle
  /\ AuthIdle
  /\ configFile \in RaceStores
  /\ pendingBody = <<>>
  /\ regResponse = <<>>
  /\ upsertRuns = [r \in UpsertRequests |-> NoUpsert]
  /\ upsertBase = configFile

UpsertsNext ==
  \/ \E r \in UpsertRequests : \E input \in RaceBodies : UpsertBegin(r, input) /\ UNCHANGED notU
  \/ \E r \in UpsertRequests : UpsertMerge(r) /\ UNCHANGED notU
  \/ \E r \in UpsertRequests : UpsertLoad(r) /\ UNCHANGED notU
  \/ \E r \in UpsertRequests : UpsertSave(r) /\ UNCHANGED notU
  \/ \E r \in UpsertRequests : UpsertReturn(r) /\ UNCHANGED notU

SpecUpserts == UpsertsInit /\ [][UpsertsNext]_vars

(***************************************************************************)
(* HTTP request handler (server/index.js)                                   *)
(***************************************************************************)
Routes ==
  {"health", "auth.me", "auth.login", "auth.logout", "platforms.get", "platforms.put",
   "monitor.get", "monitor.check", "ai.edit-image", "ai.generate-image", "static", "other"}

AiRoutes == {"ai.edit-image", "ai.generate-image"}

LOGIN_BODY_LIMIT == 16384
BODY_LIMIT == 20971520

Body(size, json, password, submission, images) ==
  [size |-> size, json |-> json, password |-> password, platforms |-> submission, images |-> images]
EmptyBody == Body(0, "valid", "", <<>>, "wellformed")
GoodEntry == [id |-> <<<<"a">>>>, baseUrl |-> <<<<"u">>>>, model |-> <<<<"m">>>>, apiKey |-> <<KeyLong>>]
KeylessEntry == [id |-> <<<<"b">>>>, baseUrl |-> <<<<"u">>>>, model |-> <<<<"m">>>>, apiKey |-> <<>>]

\* the bodies a client sends to a route that reads one
BodiesOf(route) ==
  IF route = "auth.login"
  THEN {EmptyBody, Body(20, "valid", "pw", <<>>, "wellformed"), Body(20, "valid", "guess", <<>>, "wellformed"),
        Body(LOGIN_BODY_LIMIT + 1, "valid", "pw", <<>>, "wellformed")}
  ELSE IF route = "platforms.put"
  THEN {EmptyBody, Body(200, "valid", "", <<GoodEntry>>, "wellformed"),
        Body(200, "valid", "", <<KeylessEntry>>, "wellformed"), Body(200, "invalid", "", <<>>, "wellformed"),
        Body(BODY_LIMIT + 1, "valid", "", <<GoodEntry>>, "wellformed")}
  ELSE IF route \in {"ai.edit-image", "ai.generate-image"}
  THEN {Body(200, "valid", "", <<>>, "wellformed"), Body(200, "valid", "", <<>>, "malformed"),
        Body(200, "invalid", "", <<>>, "wellformed"), Body(BODY_LIMIT + 1, "valid", "", <<>>, "wellformed")}
  ELSE {EmptyBody}

\* how a runner call of an AI route ends: the HTTP status it leads to and the upstream calls made
RunnerOutcomes(route, count) ==
  {[statusCode |-> 200, cause |-> "", upstream |-> n] : n \in 1..count}
  \cup {[statusCode |-> 502, cause |-> "all platforms failed", upstream |-> count]}
  \cup (IF route = "ai.generate-image"
        THEN {[statusCode |-> 502, cause |-> "no image data", upstream |-> n] : n \in 1..count}
        ELSE {})

NoEffects == [registryRead |-> FALSE, registryWritten |-> FALSE, probes |-> 0, upstream |-> 0, cookieSet |-> FALSE]

\* what the handler leaves behind: the response and the state it hands on
Outcome(statusCode, ok, cause, effects) ==
  [statusCode |-> statusCode, ok |-> ok, cause |-> cause, effects |-> effects,
   file |-> configFile, status |-> statusById, probe |-> lastProbe, jar |-> cookieJar]

\* the catch of the handler: json(res, error.statusCode || 500, { ok: false, message })
Caught(statusCode, cause, effects) == Outcome(IF statusCode # 0 THEN statusCode ELSE 500, FALSE, cause, effects)

\* readBodyJson(req, { limitBytes }): <<>> or <<the error thrown>>
readBodyJson(body, limitBytes) ==
  IF body.size > limitBytes THEN <<[statusCode |-> 413, cause |-> "body too large"]>>
  ELSE IF body.size > 0 /\ body.json = "invalid" THEN <<[statusCode |-> 400, cause |-> "validation"]>>
  ELSE <<>>

requireLogin_never(tok) == <<>>

\* requireLogin(req): <<>> or <<the error thrown>>
requireLogin(tok) ==
  IF ~isLoggedIn(tok) THEN <<[statusCode |-> 401, cause |-> "session"]>> ELSE <<>>

\* monitor.checkOnce() run to its end: every platform probed in turn
RECURSIVE checkedAll(_, _, _, _)
checkedAll(ps, results, map, k) ==
  IF k > Len(ps) THEN map
  ELSE checkedAll(ps, results, setStatus(map, statusOf(ps[k], results[k], now)), k + 1)

loginRoute(body) ==
  LET read == readBodyJson(body, LOGIN_BODY_LIMIT)
      entry == [token |-> sessionToken(getSecret, now, DEFAULT_TTL_SECONDS),
                iat |-> now, ttl |-> DEFAULT_TTL_SECONDS, secret |-> getSecret]
  IN IF read # <<>> THEN Caught(read[1].statusCode, read[1].cause, NoEffects)
     ELSE IF adminPassword = "" THEN Caught(500, "no password configured", NoEffects)
     ELSE IF body.password # adminPassword THEN Outcome(401, FALSE, "wrong password", NoEffects)
     ELSE IF getSecret = "" THEN Caught(500, "no secret configured", NoEffects)
     ELSE [Outcome(200, TRUE, "", [NoEffects EXCEPT !.cookieSet = TRUE]) EXCEPT !.jar = {entry}]

platformsGetRoute(tok) ==
  IF requireLogin(tok) # <<>> THEN Caught(401, "session", NoEffects)
  ELSE Outcome(200, TRUE, "", [NoEffects EXCEPT !.registryRead = TRUE])

platformsPutRoute(tok, body) ==
  LET read == readBodyJson(body, BODY_LIMIT)
      out == upsertGeminiPlatforms(body.platforms, configFile)
  IN IF requireLogin(tok) # <<>> THEN Caught(401, "session", NoEffects)
     ELSE IF read # <<>> THEN Caught(read[1].statusCode, read[1].cause, NoEffects)
     ELSE IF out.error # <<>> /\ out.error[1].kind = "empty field"
     THEN Caught(out.error[1].statusCode, "validation", NoEffects)
     ELSE IF out.error # <<>>
     THEN Caught(out.error[1].statusCode, "validation", [NoEffects EXCEPT !.registryRead = TRUE])
     ELSE [Outcome(200, TRUE, "", [NoEffects EXCEPT !.registryRead = TRUE, !.registryWritten = TRUE])
             EXCEPT !.file = out.file]

monitorGetRoute(tok) ==
  IF requireLogin(tok) # <<>> THEN Caught(401, "session", NoEffects)
  ELSE Outcome(200, TRUE, "", NoEffects)

monitorCheckRoute(tok, results) ==
  LET ps == getGeminiPlatforms(configFile)
  IN IF requireLogin(tok) # <<>> THEN Caught(401, "session", NoEffects)
     ELSE [Outcome(200, TRUE, "", [NoEffects EXCEPT !.registryRead = TRUE, !.probes = Len(ps)])
             EXCEPT !.status = checkedAll(ps, results, statusById, 1),
                    !.probe = checkedAll(ps, results, lastProbe, 1)]

aiRoute(route, tok, body, run) ==
  LET read == readBodyJson(body, BODY_LIMIT)
      ps == getGeminiPlatforms(configFile)
      readOnly == [NoEffects EXCEPT !.registryRead = TRUE]
  IN IF requireAuthForAI /\ requireLogin(tok) # <<>> THEN Caught(401, "session", NoEffects)
     ELSE IF read # <<>> THEN Caught(read[1].statusCode, read[1].cause, NoEffects)
     ELSE IF ps = <<>> THEN Caught(400, "no platforms configured", readOnly)
     ELSE IF route = "ai.edit-image" /\ body.images = "malformed" THEN Caught(0, "validation", readOnly)
     ELSE IF run.statusCode = 200 THEN Outcome(200, TRUE, "", [readOnly EXCEPT !.upstream = run.upstream])
     ELSE Caught(run.statusCode, run.cause, [readOnly EXCEPT !.upstream = run.upstream])

\* the request handler, from routing to the response
handle(route, tok, body, run, results) ==
  CASE route = "health" -> Outcome(200, TRUE, "", NoEffects)
    [] route = "auth.me" -> Outcome(200, TRUE, "", NoEffects)
    [] route = "auth.login" -> loginRoute(body)
    [] route = "auth.logout" -> Outcome(200, TRUE, "", [NoEffects EXCEPT !.cookieSet = TRUE])
    [] route = "platforms.get" -> platformsGetRoute(tok)
    [] route = "platforms.put" -> platformsPutRoute(tok, body)
    [] route = "monitor.get" -> monitorGetRoute(tok)
    [] route = "monitor.check" -> monitorCheckRoute(tok, results)
    [] route \in {"ai.edit-image", "ai.generate-image"} -> aiRoute(route, tok, body, run)
    [] route = "static" -> Outcome(404, FALSE, "not found", NoEffects)
    [] OTHER -> Outcome(405, FALSE, "method not allowed", NoEffects)

\* the cookies a client sends: none, the one it holds, one that was never issued
CookiesToSend == {<<>>, <<Raw>>} \cup {c.token : c \in cookieJar}

HttpProbeResults == {r \in ProbeResults : r.errorMessage # "probe timeout"}

Request(route, tok, body, run, results) ==
  \E out \in {handle(route, tok, body, run, results)} :
     /\ lastRequest = <<>>
     /\ configFile' = out.file
     /\ statusById' = out.status
     /\ lastProbe' = out.probe
     /\ cookieJar' = IF route = "auth.logout" THEN {} ELSE out.jar
     /\ lastLogin' = IF route = "auth.login" THEN out.statusCode ELSE lastLogin
     /\ lastLogout' = IF route = "auth.logout"
                      THEN <<[setCookie |-> clearSessionCookie, at |-> now, issued |-> cookieJar]>>
                      ELSE lastLogout
     /\ lastRequest' = <<[route |-> route, token |-> tok, body |-> body, at |-> now,
                          gateAi |-> requireAuthForAI, statusCode |-> out.statusCode, ok |-> out.ok,
                          cause |-> out.cause, effects |-> out.effects,
                          changed |-> out.file # configFile \/ out.status # statusById]>>
     /\ UNCHANGED <<authSecret, adminPassword, now, ticks, lastCheck, clock, requireAuthForAI>>

\* res.end(): the exchange is over, its record is dropped and the next request can be read
ResponseEnd ==
  /\ lastRequest # <<>>
  /\ lastRequest' = <<>>
  /\ lastLogout' = <<>>
  /\ UNCHANGED <<authSecret, adminPassword, now, ticks, cookieJar, lastLogin, lastCheck>>
  /\ UNCHANGED <<rvars, mvars, requireAuthForAI>>

HttpInit ==
  /\ platforms = <<>>
  /\ RunIdle
  /\ GenIdle
  /\ TaskIdle
  /\ RegistryIdle
  /\ JobIdle
  /\ MonitorIdle
  /\ CountIdle
  /\ authSecret = ""
  /\ adminPassword \in Passwords
  /\ now = 1
  /\ ticks = 0
  /\ cookieJar = {}
  /\ lastLogin = 0
  /\ lastCheck = <<>>
  /\ lastLogout = <<>>
  /\ requireAuthForAI \in BOOLEAN
  /\ lastRequest = <<>>

NoRun == [statusCode |-> 200, cause |-> "", upstream |-> 0]

\* the routes that never look at the cookie
OpenRoutes == {"health", "auth.login", "auth.logout", "static", "other"}

\* a whole session lifetime passes between two requests
HttpTickSteps == {DEFAULT_TTL_SECONDS}

\* what a request to a route carries: a cookie where the route looks at it, the
\* end of the runner call on an AI route, the probe results of a monitor check
CookiesOf(route) == IF route \in OpenRoutes THEN {<<>>} ELSE CookiesToSend
RunsOf(route) ==
  IF route \in AiRoutes THEN RunnerOutcomes(route, Max2(1, Len(getGeminiPlatforms(configFile)))) ELSE {NoRun}
ResultsOf(route) ==
  IF route = "monitor.check" THEN [1..Len(getGeminiPlatforms(configFile)) -> HttpProbeResults] ELSE {<<>>}

HttpNext ==
  \/ \E route \in Routes : \E tok \in CookiesOf(route) : \E body \in BodiesOf(route) :
       \E run \in RunsOf(route) : \E results \in ResultsOf(route) :
         Request(route, tok, body, run, results) /\ UNCHANGED notH
  \/ ResponseEnd /\ UNCHANGED notH
  \/ \E d \in HttpTickSteps : lastRequest = <<>> /\ Tick(d) /\ UNCHANGED notA

SpecHttp == HttpInit /\ [][HttpNext]_vars

(***************************************************************************)
(* Desired image count (server/gemini.js, services/ai/registry.ts,          *)
(* services/nanoBananaService.ts, services/geminiService.ts)                *)
(* A JavaScript number is NaN, an infinity or a finite value kept as twice  *)
(* its value, so that halves are exact.                                     *)
(***************************************************************************)
NaN == [kind |-> "nan", twice |-> 0]
PosInf == [kind |-> "inf", twice |-> 1]
NegInf == [kind |-> "inf", twice |-> -1]
Fin(twice) == [kind |-> "fin", twice |-> twice]

NotNumber == [kind |-> "string", twice |-> 0]

\* request.imageCount as a caller of the service can pass it: absent, not a number, or any number
CountInputs ==
  {<<>>, <<NotNumber>>, <<NaN>>, <<PosInf>>, <<NegInf>>}
  \cup {<<Fin(t)>> : t \in (-2)..(2 * MaxImageCount + 1)}

\* the runner of the server reads the request from JSON.parse, which yields no NaN (1e999 yields Infinity)
inputsOf(service) == IF service = "GeminiRunner" THEN CountInputs \ {<<NaN>>} ELSE CountInputs

CountServices == {"GeminiRunner", "GeminiAiService", "NanoBananaAiService"}

\* a < b on JavaScript numbers (false when either is NaN)
jsLess(a, b) ==
  /\ a.kind # "nan"
  /\ b.kind # "nan"
  /\ IF a.kind = "inf" THEN a.twice < 0 /\ b # a
     ELSE IF b.kind = "inf" THEN b.twice > 0
     ELSE a.twice < b.twice

MathFloor(x) == IF x.kind = "fin" THEN Fin(2 * (x.twice \div 2)) ELSE x

MathMin(a, b) ==
  IF a.kind = "nan" \/ b.kind = "nan" THEN NaN ELSE IF jsLess(b, a) THEN b ELSE a

MathMax(a, b) ==
  IF a.kind = "nan" \/ b.kind = "nan" THEN NaN ELSE IF jsLess(a, b) THEN b ELSE a

\* typeof request.imageCount === "number" ? Math.max(1, Math.min(4, Math.floor(request.imageCount))) : 1
desiredCount(ic) ==
  IF ic # <<>> /\ ic[1].kind # "string"
  THEN MathMax(Fin(2), MathMin(Fin(2 * MAX_IMAGE_COUNT), MathFloor(ic[1])))
  ELSE Fin(2)

\* the number of k in 0, 1, 2, ... with k < d: the turns of `for (i = 0; i < desiredCount; i++)`
\* and the length of `urls.slice(0, desiredCount)` over enough urls
turnsBelow(d, available) ==
  IF d.kind = "nan" THEN 0
  ELSE IF d.kind = "inf" THEN (IF d.twice > 0 THEN available ELSE 0)
  ELSE Min2(available, Max2(0, (d.twice + 1) \div 2))

\* the operation computes desiredCount from the request
ComputeDesired ==
  /\ countDesired = <<>>
  /\ countDesired' = <<desiredCount(countInput)>>
  /\ UNCHANGED <<countService, countInput, countReturned>>

\* the operation succeeds: the images of its result (upstream left `available` of them to take)
ReturnImages(available) ==
  /\ countDesired # <<>>
  /\ countReturned = <<>>
  /\ countService = "NanoBananaAiService" \/ available = 2 * MaxImageCount
  /\ countReturned' = <<turnsBelow(countDesired[1], available)>>
  /\ UNCHANGED <<countService, countInput, countDesired>>

CountInit ==
  /\ RestIdle
  /\ TaskIdle
  /\ RegistryIdle
  /\ JobIdle
  /\ MonitorIdle
  /\ HttpIdle
  /\ AuthIdle
  /\ countService \in CountServices
  /\ countInput \in inputsOf(countService)
  /\ countDesired = <<>>
  /\ countReturned = <<>>

CountNext ==
  \/ ComputeDesired /\ UNCHANGED notC
  \/ \E available \in 1..(2 * MaxImageCount) : ReturnImages(available) /\ UNCHANGED notC

SpecCount == CountInit /\ [][CountNext]_vars

(***************************************************************************)
(* Background scheduling (server/monitor.js start, stop)                    *)
(***************************************************************************)
\* intervalMs as start receives it: absent, a text that is no number, or a number
IntervalInputs ==
  {<<>>, <<NotNumber>>, <<PosInf>>, <<NegInf>>}
  \cup {<<Fin(2 * n)>> : n \in {-1, 0, 1, 4999, 5000, 60000, 70000}}
  \cup {<<Fin(2 * 5000 + 1)>>}

\* Number(value)
jsNumber(value) == IF value = <<>> \/ value[1].kind = "string" THEN NaN ELSE value[1]

\* x || fallback on numbers: NaN and 0 are falsy
orElse(x, fallback) == IF x.kind = "nan" \/ (x.kind = "fin" /\ x.twice = 0) THEN fallback ELSE x

\* Math.max(5000, Number(intervalMs) || 60000)
intervalDelay(intervalMs) == MathMax(Fin(2 * 5000), orElse(jsNumber(intervalMs), Fin(2 * 60000)))

\* the period in ms of setInterval(callback, ms): a delay that is not within
\* 1..TIMEOUT_MAX is set to 1, a fractional one is truncated
timerPeriod(ms) ==
  IF ms.kind # "fin" THEN 1
  ELSE IF ms.twice < 2 \/ ms.twice \div 2 > TIMEOUT_MAX THEN 1
  ELSE ms.twice \div 2

\* start({ intervalMs }): the previous interval is cleared and a new one is set
TimerStart(intervalMs) ==
  /\ monitorTimer' = <<[delay |-> intervalDelay(intervalMs),
                        period |-> timerPeriod(intervalDelay(intervalMs)), fired |-> 0]>>
  /\ monitorTimer' # monitorTimer
  /\ UNCHANGED <<mvars, configFile>>

\* stop()
TimerStop ==
  /\ monitorTimer # <<>>
  /\ monitorTimer' = <<>>
  /\ UNCHANGED <<mvars, configFile>>

\* a period has passed: the callback of the interval calls this.checkOnce()
IntervalFires ==
  /\ monitorTimer # <<>>
  /\ monitorTimer[1].fired < MaxFires
  /\ monitorTimer' = <<[monitorTimer[1] EXCEPT !.fired = @ + 1]>>
  /\ CheckStart("timer")

TimerInit ==
  /\ platforms = <<>>
  /\ RunIdle
  /\ GenIdle
  /\ TaskIdle
  /\ JobIdle
  /\ MonitorIdle
  /\ CountIdle
  /\ HttpIdle
  /\ AuthIdle
  /\ configFile \in {<<>>} \cup ProbedConfigs
  /\ pendingBody = <<>>
  /\ regResponse = <<>>
  /\ upsertRuns = [r \in UpsertRequests |-> NoUpsert]
  /\ upsertBase = <<>>

TimerNext ==
  \/ \E intervalMs \in IntervalInputs : TimerStart(intervalMs) /\ UNCHANGED notI
  \/ TimerStop /\ UNCHANGED notI
  \/ IntervalFires /\ UNCHANGED notI
  \/ \E result \in ProbeResults : ProbeResolved("timer", result) /\ UNCHANGED notM
  \/ CheckReturn("timer") /\ UNCHANGED notM

SpecTimer == TimerInit /\ [][TimerNext]_vars

(***************************************************************************)
(* createFailoverAiService over job-based platform services                 *)
(* (services/nanoBananaService.ts: createDrawTask, pollDrawResult)          *)
(***************************************************************************)
JobPlatformIds == <<"nb1", "nb2", "nb3", "nb4">>
JobIds == {"j1", "j2"}

pollPlatform_first(pos) == 1

\* pollDrawResult posts to this.baseUrl(): the platform whose service created the task
pollPlatform(pos) == pos

\* createFailoverAiService(platforms).editImage(request) begins: the for-of loop is at its first platform
JobStart(n) ==
  /\ jobState = "returned"
  /\ jobLog = <<>>
  /\ jobPlatforms = <<>>
  /\ jobPlatforms' = SubSeq(JobPlatformIds, 1, n)
  /\ jobPos' = 1
  /\ jobTask' = <<>>
  /\ jobPolls' = 0
  /\ jobErrors' = <<>>
  /\ jobState' = "running"
  /\ UNCHANGED jobLog

\* the catch of the loop body: record the error, go on to the next platform or
\* throw the aggregate error (a single platform's service is used unwrapped and its error leaves as it is)
jobFailed(message) ==
  /\ jobErrors' = Append(jobErrors, [platformId |-> jobPlatforms[jobPos], message |-> message])
  /\ jobTask' = <<>>
  /\ jobPolls' = 0
  /\ IF jobPos < Len(jobPlatforms)
     THEN jobPos' = jobPos + 1 /\ jobState' = "running"
     ELSE jobPos' = jobPos /\ jobState' = "thrown"

\* createDrawTask answers with a task id
TaskCreated(id) ==
  /\ jobState = "running"
  /\ jobTask = <<>>
  /\ jobTask' = <<id>>
  /\ jobLog' = Append(jobLog, [platform |-> jobPlatforms[jobPos], kind |-> "create", id |-> id])
  /\ UNCHANGED <<jobPlatforms, jobPos, jobPolls, jobErrors, jobState>>

\* createDrawTask throws
CreateFailed ==
  /\ jobState = "running"
  /\ jobTask = <<>>
  /\ jobLog' = Append(jobLog, [platform |-> jobPlatforms[jobPos], kind |-> "create", id |-> ""])
  /\ jobFailed("create task failed")
  /\ UNCHANGED jobPlatforms

\* one fetch of pollDrawResult: the task is pending, done, done with a url
\* whose download then fails, or failed
Polled(answer) ==
  /\ jobState = "running"
  /\ jobTask # <<>>
  /\ jobPolls < MaxPolls
  /\ jobLog' = Append(jobLog, [platform |-> jobPlatforms[pollPlatform(jobPos)], kind |-> "poll", id |-> jobTask[1]])
  /\ CASE answer = "pending" ->
            /\ jobPolls' = jobPolls + 1
            /\ UNCHANGED <<jobPos, jobTask, jobErrors, jobState>>
       [] answer = "done" ->
            /\ jobState' = "returned"
            /\ UNCHANGED <<jobPos, jobTask, jobPolls, jobErrors>>
       [] answer = "doneUnfetchable" -> jobFailed("download failed")
       [] OTHER -> jobFailed("task failed")
  /\ UNCHANGED jobPlatforms

\* the while loop of pollDrawResult ends on its clock: the task timed out
PollTimedOut ==
  /\ jobState = "running"
  /\ jobTask # <<>>
  /\ jobFailed("task timed out")
  /\ UNCHANGED <<jobPlatforms, jobLog>>

JobInit ==
  /\ RestIdle
  /\ TaskIdle
  /\ RegistryIdle
  /\ JobIdle
  /\ MonitorIdle
  /\ CountIdle
  /\ HttpIdle
  /\ AuthIdle

JobNext ==
  \/ \E n \in 1..MaxJobPlatforms : JobStart(n) /\ UNCHANGED notJ
  \/ \E id \in JobIds : TaskCreated(id) /\ UNCHANGED notJ
  \/ CreateFailed /\ UNCHANGED notJ
  \/ \E answer \in {"pending", "done", "doneUnfetchable", "failed"} : Polled(answer) /\ UNCHANGED notJ
  \/ PollTimedOut /\ UNCHANGED notJ

SpecJobs == JobInit /\ [][JobNext]_vars

(***************************************************************************)
(* Failover runner properties                                               *)
(***************************************************************************)
Count == Len(platforms)

\* C1: one run attempts platforms in the order (s+i) mod n, each at most once,
\* stops at the first success and returns that platform's result; the failures
\* recorded before it are exactly the preceding platforms, in attempt order,
\* and no platform is attempted after the success.
C1_RotationStopsAtFirstSuccess ==
  /\ Len(calls) <= Count
  /\ \A k \in 1..Len(calls) : calls[k].pos = ((startPlatformIndex + (k - 1)) % Count) + 1
  /\ \A k \in 1..Len(calls) : \A j \in 1..Len(calls) : calls[k].pos = calls[j].pos => k = j
  /\ \A k \in 1..Len(calls) : calls[k].ok => (k = Len(calls) /\ runState = "returned")
  /\ runState = "returned" =>
       /\ Len(calls) >= 1
       /\ calls[Len(calls)].ok
       /\ Len(runResult) = 1
       /\ runResult[1].pos = calls[Len(calls)].pos
       /\ runThrown = <<>>
       /\ Len(errors) = Len(calls) - 1
       /\ \A k \in 1..Len(errors) : errors[k].platformId = platforms[calls[k].pos]
  /\ runState # "returned" => runResult = <<>>

C1_Witness ==
  /\ runState = "returned"
  /\ Count = 3
  /\ startPlatformIndex = 4
  /\ Len(errors) = 2

C3_ExactlyDesiredOrFilledAggregate ==
  /\ genState = "returned" =>
       /\ Len(generatedImages) = DesiredCount(imageCount)
       /\ genThrown = <<>>
  /\ genState = "thrown" =>
       /\ Len(genThrown) = 1
       /\ genThrown[1].kind = "aggregate"
       /\ genThrown[1].filled = <<Len(generatedImages), DesiredCount(imageCount)>>
       /\ Len(generatedImages) < DesiredCount(imageCount)

\* C4: the generator never fails because of a single failed attempt; it fails
\* only when the attempt budget maxAttempts is exhausted while fewer than
\* desiredCount artifacts are collected.
C4_FailsOnlyWhenBudgetExhausted ==
  (genState = "thrown" /\ genThrown[1].kind = "aggregate") =>
     /\ attempts >= MaxTotalAttempts(envMaxAttempts)
     /\ Len(generatedImages) < DesiredCount(imageCount)

(***************************************************************************)
(* Task queue properties                                                    *)
(***************************************************************************)
Terminal == {"succeeded", "failed", "canceled"}
LegalMoves == {<<"queued", "running">>, <<"queued", "canceled">>,
               <<"running", "succeeded">>, <<"running", "failed">>}
StatusOf(ts, id) == IF HasTask(ts, id) THEN TaskOf(ts, id).status ELSE "absent"

\* C5: a task's status changes only along queued->running, queued->canceled,
\* running->succeeded, running->failed; no task leaves a terminal status and a
\* requested transition out of a terminal status is rejected.
C5_OnlyLegalTransitions ==
  [][\A id \in TaskIds :
       LET a == StatusOf(taskList, id)
           b == StatusOf(taskList', id)
       IN /\ (a # "absent" /\ b # "absent" /\ a # b) => <<a, b>> \in LegalMoves
          /\ (a \in Terminal /\ b # "absent") => b = a
          /\ (a \in Terminal /\ lastOp'.id = id /\ lastOp'.op \in {"start", "succeed", "fail", "cancel"})
               => (~lastOp'.accepted /\ taskList' = taskList)]_vars

C5_Witness ==
  /\ lastOp.op \in {"start", "succeed", "fail", "cancel"}
  /\ ~lastOp.accepted
  /\ StatusOf(taskList, lastOp.id) \in Terminal

\* C6: cancellation succeeds only for a queued task, which becomes canceled; a
\* cancel request for a running or terminal task is rejected and leaves that
\* task's status and the rest of the list unchanged.
C6_CancelOnlyQueued ==
  [][lastOp'.op = "cancel" =>
       LET id == lastOp'.id
       IN /\ lastOp'.accepted <=> StatusOf(taskList, id) = "queued"
          /\ lastOp'.accepted =>
               /\ StatusOf(taskList', id) = "canceled"
               /\ Len(taskList') = Len(taskList)
               /\ \A k \in 1..Len(taskList) : taskList[k].id # id => taskList'[k] = taskList[k]
          /\ ~lastOp'.accepted => taskList' = taskList]_vars

C6_Witness ==
  /\ lastOp.op = "cancel"
  /\ ~lastOp.accepted
  /\ StatusOf(taskList, lastOp.id) = "running"
  /\ \E id \in TaskIds : StatusOf(taskList, id) = "canceled"

\* C7: a task disappears from the list only through per-item removal or
\* clear-finished; per-item removal is accepted only for a terminal task, and a
\* removal request for a queued or running task is rejected and changes nothing.
C7_RemovalOnlyExplicitAndTerminal ==
  [][/\ \A id \in TaskIds :
          (HasTask(taskList, id) /\ ~HasTask(taskList', id)) =>
             \/ (lastOp'.op = "remove" /\ lastOp'.id = id /\ lastOp'.accepted)
             \/ (lastOp'.op = "clear" /\ lastOp'.accepted)
     /\ lastOp'.op = "remove" =>
          /\ lastOp'.accepted <=> StatusOf(taskList, lastOp'.id) \in Terminal
          /\ lastOp'.accepted => taskList' = SelectSeq(taskList, LAMBDA t : t.id # lastOp'.id)
          /\ ~lastOp'.accepted => taskList' = taskList]_vars

C7_Witness ==
  /\ lastOp.op = "remove"
  /\ ~lastOp.accepted
  /\ StatusOf(taskList, lastOp.id) = "queued"
  /\ Len(taskList) < nextTaskId - 1

\* C8: clear-finished removes, in one step, all and only the tasks whose status
\* is succeeded, failed or canceled; every queued or running task stays, with
\* unchanged fields.
C8_ClearFinishedExact ==
  [][(lastOp'.op = "clear" /\ lastOp'.accepted) =>
       /\ taskList' = SelectSeq(taskList, LAMBDA t : t.status \notin Terminal)
       /\ \A k \in 1..Len(taskList') : taskList'[k].status \notin Terminal
       /\ \A k \in 1..Len(taskList) :
            taskList[k].status \in {"queued", "running"} =>
              \E j \in 1..Len(taskList') : taskList'[j] = taskList[k]]_vars

C8_Witness ==
  /\ lastOp.op = "clear"
  /\ lastOp.accepted
  /\ Len(taskList) = 2
  /\ nextTaskId = 4
  /\ \E id \in TaskIds : StatusOf(taskList, id) = "running"
  /\ \E id \in TaskIds : StatusOf(taskList, id) = "queued"

(***************************************************************************)
(* Session properties                                                       *)
(***************************************************************************)
HasDot(tok) == \E k \in 1..Len(tok) : tok[k].t = "dot"
FirstDot(tok) == CHOOSE k \in 1..Len(tok) : tok[k].t = "dot" /\ \A j \in 1..(k - 1) : tok[j].t # "dot"
PayloadSegment(tok) == SubSeq(tok, 1, FirstDot(tok) - 1)
SignatureSegment(tok) == SubSeq(tok, FirstDot(tok) + 1, Len(tok))
\* the expiresAt the payload segment carries, 0 when it carries none
ExpiresAt(tok) ==
  LET p == PayloadSegment(tok)
  IN IF Len(p) = 1 /\ p[1].t = "b64" /\ p[1].json.exp # <<>> THEN p[1].json.exp[1] ELSE 0

ValidUnder(tok, secret, t) ==
  /\ secret # ""
  /\ HasDot(tok)
  /\ SignatureSegment(tok) = <<Seg("mac", secret, PayloadSegment(tok), NoJson)>>
  /\ t < ExpiresAt(tok)

\* C9: a presented token is accepted iff its signature is the HMAC of its exact
\* payload segment under the secret configured at verification time and the
\* current time is strictly before the payload's expiresAt; altered payloads,
\* other secrets and an unconfigured secret are all rejected.
C9_AcceptIffSignedAndUnexpired ==
  /\ \A tok \in Presentable : isLoggedIn(tok) <=> ValidUnder(tok, getSecret, now)
  /\ lastCheck # <<>> =>
       (lastCheck[1].result <=> ValidUnder(lastCheck[1].token, lastCheck[1].secret, lastCheck[1].at))
  /\ \A c \in cookieJar :
       /\ ~isLoggedIn(altered(c.token) \o <<Dot>> \o SignatureSegment(c.token))
       /\ \A k \in Keys : k # getSecret => ~isLoggedIn(PayloadSegment(c.token) \o <<Dot>> \o sign(k, PayloadSegment(c.token)))
  /\ getSecret = "" => \A tok \in Presentable : ~isLoggedIn(tok)

C9_Witness ==
  /\ lastCheck # <<>>
  /\ ~lastCheck[1].result
  /\ lastCheck[1].at = now
  /\ \E c \in cookieJar :
       /\ isLoggedIn(c.token)
       /\ lastCheck[1].token = altered(c.token) \o <<Dot>> \o SignatureSegment(c.token)

\* C10: a token just issued verifies as true immediately, as false once the
\* configured lifetime has elapsed, and as false after the secret has changed.
C10_SessionRoundTrip ==
  \A c \in cookieJar :
    /\ (now = c.iat /\ getSecret = c.secret) => isLoggedIn(c.token)
    /\ now >= c.iat + c.ttl => ~isLoggedIn(c.token)
    /\ getSecret # c.secret => ~isLoggedIn(c.token)

C10_Witness ==
  /\ lastCheck # <<>>
  /\ ~lastCheck[1].result
  /\ \E c \in cookieJar :
       /\ lastCheck[1].token = c.token
       /\ lastCheck[1].secret = c.secret
       /\ lastCheck[1].at = c.iat + c.ttl
       /\ now = lastCheck[1].at

(***************************************************************************)
(* Platform registry properties                                             *)
(***************************************************************************)
IsUpsert == regResponse # <<>> /\ regResponse[1].op = "upsert"
Submitted == regResponse[1].input
StoredBefore == regResponse[1].before
Accepted == regResponse[1].error = <<>>

\* what a submitted field holds once blanks around it are dropped (missing counts as empty)
Given(field) == IF field = <<>> THEN <<>> ELSE trim(field[1])
WithSeparator(url) == IF url # <<>> /\ url[Len(url)] = "/" THEN url ELSE url \o <<"/">>
EntryComplete(p) == p.baseUrl # <<>> /\ p.baseUrl[1] # <<>> /\ Given(p.model) # <<>>
\* the id entry k of a submission goes by: the given one, else the derived one
IdOf(sub, k) ==
  IF sub[k].id # <<>> /\ sub[k].id[1] # <<>> THEN sub[k].id[1]
  ELSE <<"gemini#", Digits[k], ":">> \o WithSeparator(Given(sub[k].baseUrl)) \o <<"|">> \o Given(sub[k].model)
StoredIds(file) == {file[k].id : k \in 1..Len(file)}
KeysOf(file, id) == {file[k].apiKey : k \in {j \in 1..Len(file) : file[j].id = id}}
Existing(sub, k) == IdOf(sub, k) \in StoredIds(StoredBefore)
NewWithoutKey(sub, k) == ~Existing(sub, k) /\ Given(sub[k].apiKey) = <<>>

\* C11: an upsert entry whose id is already stored and whose credential is
\* empty or omitted does not make the upsert fail, and the stored platform
\* keeps the credential it had while baseUrl and model take the submitted
\* values (trimmed, the baseUrl carrying its trailing separator).
C11_ExistingIdKeepsCredential ==
  IsUpsert =>
    /\ (\A k \in 1..Len(Submitted) :
           EntryComplete(Submitted[k]) /\ (Existing(Submitted, k) \/ Given(Submitted[k].apiKey) # <<>>))
         => Accepted
    /\ \A k \in 1..Len(Submitted) :
         Existing(Submitted, k) /\ Given(Submitted[k].apiKey) = <<>> =>
           /\ ~Accepted => regResponse[1].error[1].platformId # <<IdOf(Submitted, k)>>
           /\ Accepted =>
                /\ Len(configFile) = Len(Submitted)
                /\ configFile[k].id = IdOf(Submitted, k)
                /\ configFile[k].apiKey \in KeysOf(StoredBefore, IdOf(Submitted, k))
                /\ configFile[k].apiKey = currentById(StoredBefore, IdOf(Submitted, k))[1].apiKey
                /\ configFile[k].baseUrl = WithSeparator(Given(Submitted[k].baseUrl))
                /\ configFile[k].model = Given(Submitted[k].model)

C11_Witness ==
  /\ IsUpsert
  /\ Accepted
  /\ \E k \in 1..Len(Submitted) :
       /\ Existing(Submitted, k)
       /\ Given(Submitted[k].apiKey) = <<>>
       /\ configFile[k].apiKey = KeyShort
  /\ \E k \in 1..Len(Submitted) : Given(Submitted[k].apiKey) = KeyLong

C13_IncompleteEntryRejected ==
  IsUpsert =>
    \A k \in 1..Len(Submitted) :
      Given(Submitted[k].baseUrl) = <<>> \/ Given(Submitted[k].model) = <<>> =>
        /\ ~Accepted
        /\ regResponse[1].error[1].statusCode = 400
        /\ \E e \in 1..Len(regResponse[1].error[1].fields) : regResponse[1].error[1].fields[e].index = k - 1
        /\ configFile = StoredBefore

\* the masked preview: first 4 characters, "****", last 4 characters, or
\* "********" when the credential has 8 characters or fewer
Preview(key) ==
  IF Len(key) <= 8 THEN <<"*", "*", "*", "*", "*", "*", "*", "*">>
  ELSE <<key[1], key[2], key[3], key[4], "*", "*", "*", "*",
         key[Len(key) - 3], key[Len(key) - 2], key[Len(key) - 1], key[Len(key)]>>
Contains(text, part) == \E k \in 0..(Len(text) - Len(part)) : SubSeq(text, k + 1, k + Len(part)) = part
StoredKeys == {configFile[k].apiKey : k \in 1..Len(configFile)}
               \cup (IF regResponse = <<>> THEN {} ELSE {StoredBefore[k].apiKey : k \in 1..Len(StoredBefore)})

\* C15: no value leaving the registry through the redacted list or the upsert
\* response contains a stored credential in full; each credential appears
\* only as its masked preview.
C15_OnlyMaskedCredentialsLeave ==
  regResponse # <<>> =>
    LET out == regResponse[1].returned
    IN /\ Accepted => Len(out) = Len(configFile)
       /\ \A k \in 1..Len(out) :
            /\ DOMAIN out[k] = {"id", "baseUrl", "model", "apiKeyMasked", "hasApiKey"}
            /\ out[k].apiKeyMasked = Preview(configFile[k].apiKey)
            /\ out[k].id = configFile[k].id
            /\ \A key \in StoredKeys :
                 /\ ~Contains(out[k].apiKeyMasked, key)
                 /\ ~Contains(out[k].id, key)
                 /\ ~Contains(out[k].baseUrl, key)
                 /\ ~Contains(out[k].model, key)
       /\ ~Accepted => \A key \in StoredKeys :
            /\ regResponse[1].error[1].platformId # <<>> => ~Contains(regResponse[1].error[1].platformId[1], key)

C15_Witness ==
  /\ regResponse # <<>>
  /\ regResponse[1].op = "list"
  /\ Len(regResponse[1].returned) = 2
  /\ configFile[1].apiKey = KeyShort
  /\ configFile[2].apiKey = KeyLong
  /\ regResponse[1].returned[2].apiKeyMasked = <<"s", "k", "-", "1", "*", "*", "*", "*", "3", "4", "5", "6">>

(***************************************************************************)
(* Health monitor properties                                                *)
(***************************************************************************)
\* C16: the snapshot holds at most one entry per platform id, and that entry
\* is the outcome of the most recent probe of that platform; no earlier
\* outcome is retained.
C16_SnapshotHoldsLatestProbePerId ==
  LET snap == getStatusSnapshot
  IN /\ \A j, k \in 1..Len(snap) : snap[j].id = snap[k].id => j = k
     /\ \A k \in 1..Len(snap) : lastProbe[snap[k].id] = <<snap[k]>>
     /\ \A id \in MonitorIds : lastProbe[id] # <<>> => \E k \in 1..Len(snap) : snap[k].id = id
     /\ Len(snap) <= Cardinality(MonitorIds)

C16_Witness ==
  /\ clock >= 2
  /\ Len(getStatusSnapshot) = 2
  /\ getStatusSnapshot[1].id = <<"a">>
  /\ getStatusSnapshot[1].checkedAt = 2
  /\ ~getStatusSnapshot[1].ok
  /\ getStatusSnapshot[2].checkedAt = 1
  /\ getStatusSnapshot[2].ok

ReturnedCheckComplete(c) ==
  /\ Len(checks[c].next) = Len(checks[c].platforms)
  /\ \A k \in 1..Len(checks[c].next) :
       /\ checks[c].next[k].id = checks[c].platforms[k].id
       /\ checks[c].next[k].baseUrl = checks[c].platforms[k].baseUrl
       /\ checks[c].next[k].model = checks[c].platforms[k].model
  /\ checks[c].probed = checks[c].platforms
  /\ checks[c].platforms = <<>> => checks[c].next = <<>>

\* C17: checkOnce loads the current platform list and returns exactly one
\* status per platform of that list, in list order, each platform probed
\* exactly once; on an empty list it returns an empty array and its steps
\* leave the snapshot unchanged.
C17_OneStatusPerPlatformInOrder ==
  /\ [](\A c \in CheckSources : checks[c].state = "returned" => ReturnedCheckComplete(c))
  /\ [][\A c \in CheckSources :
          /\ (checks[c].state # "running" /\ checks'[c].state = "running")
               => checks'[c].platforms = getGeminiPlatforms(configFile)
          /\ (checks[c].state = "running" /\ checks'[c] # checks[c] /\ checks[c].platforms = <<>>)
               => statusById' = statusById /\ checks'[c].state = "returned" /\ checks'[c].next = <<>>]_vars

C17_Witness ==
  /\ checks["timer"].state = "returned"
  /\ checks["timer"].platforms = <<>>
  /\ checks["request"].state = "returned"
  /\ Len(checks["request"].next) = 2
  /\ checks["request"].next[1].id = <<"b">>
  /\ checks["request"].next[2].id = <<"a">>

(***************************************************************************)
(* HTTP gate and error envelope properties                                  *)
(***************************************************************************)
Handled == lastRequest # <<>>
Req == lastRequest[1]
SessionRoutes == {"platforms.get", "platforms.put", "monitor.get", "monitor.check"}
HasValidSession == ValidUnder(Req.token, getSecret, Req.at)
Gated == Req.route \in SessionRoutes \/ (Req.route \in AiRoutes /\ Req.gateAi)

\* C14: a request without a valid session to a configuration or monitor
\* endpoint is answered 401 and has no effect (registry neither read nor
\* written, no probe issued); the AI endpoints are gated the same way exactly
\* when the require-auth toggle is on and issue no upstream call when rejected.
C14_NoSessionNoEffect ==
  Handled =>
    /\ (Gated /\ ~HasValidSession) =>
         /\ Req.statusCode = 401
         /\ ~Req.ok
         /\ Req.effects = NoEffects
         /\ ~Req.changed
    /\ (Req.route \in SessionRoutes \cup AiRoutes /\ Req.statusCode = 401) => Gated /\ ~HasValidSession
    /\ (Req.route \in AiRoutes /\ ~Req.gateAi) => Req.statusCode # 401

C14_Witness ==
  /\ Handled
  /\ Req.route = "monitor.check"
  /\ Req.statusCode = 401
  /\ Req.token # <<>>
  /\ HasDot(Req.token)
  /\ Req.at >= DEFAULT_TTL_SECONDS
  /\ configFile # <<>>
  /\ statusById[<<"a">>] # <<>>

\* the status the error classes are answered with
StatusOfClass(cause) ==
  CASE cause = "validation" -> 400
    [] cause = "session" -> 401
    [] cause = "wrong password" -> 401
    [] cause = "body too large" -> 413
    [] cause \in {"no secret configured", "no password configured", "no platforms configured"} -> 500
    [] cause \in {"all platforms failed", "no image data"} -> 502
    [] cause = "not found" -> 404
    [] OTHER -> 405

\* C18: every failed HTTP request is answered with the envelope
\* {ok:false, message} and the status of its error class: 400 validation,
\* 401 missing/invalid session, 413 body over the ceiling, 500 configuration
\* (no secret configured, no platforms configured), 502 all platforms failed.
C18_ErrorEnvelopeStatusByClass ==
  Handled /\ Req.cause # "" =>
    /\ ~Req.ok
    /\ Req.statusCode = StatusOfClass(Req.cause)

(***************************************************************************)
(* Desired count and job continuity properties                              *)
(***************************************************************************)
\* C19: for every value of the requested count (absent, zero, negative,
\* fractional, greater than 4, not a finite number) the desired count used is
\* an integer in [1,4], and no more than that many images are returned.
C19_DesiredCountWithinOneToFour ==
  /\ countDesired # <<>> =>
       /\ countDesired[1].kind = "fin"
       /\ countDesired[1].twice \in {2, 4, 6, 8}
  /\ countReturned # <<>> => countReturned[1] \in 1..4 /\ 2 * countReturned[1] <= countDesired[1].twice

CreatesBefore(k) == {j \in 1..(k - 1) : jobLog[j].kind = "create"}
LastCreateBefore(k) == jobLog[CHOOSE j \in CreatesBefore(k) : \A h \in CreatesBefore(k) : h <= j]

\* C20: a job id created on one platform is only ever polled on that same
\* platform; when failover moves to another platform the operation starts
\* over there with a new create call, and no platform is asked about a job
\* another platform issued.
C20_JobPolledOnlyWhereCreated ==
  /\ \A k \in 1..Len(jobLog) :
       jobLog[k].kind = "poll" =>
         /\ CreatesBefore(k) # {}
         /\ LastCreateBefore(k).platform = jobLog[k].platform
         /\ LastCreateBefore(k).id = jobLog[k].id
  /\ \A k \in 2..Len(jobLog) :
       jobLog[k].platform # jobLog[k - 1].platform => jobLog[k].kind = "create"
  /\ jobState = "running" /\ jobTask = <<>> =>
       \A k \in 1..Len(jobLog) : jobLog[k].platform # jobPlatforms[jobPos]

C20_Witness ==
  /\ jobState = "returned"
  /\ Len(jobLog) = 5
  /\ jobLog[1] = [platform |-> "nb1", kind |-> "create", id |-> "j1"]
  /\ jobLog[2] = [platform |-> "nb1", kind |-> "poll", id |-> "j1"]
  /\ jobLog[3] = [platform |-> "nb2", kind |-> "create", id |-> "j1"]
  /\ jobLog[5] = [platform |-> "nb2", kind |-> "poll", id |-> "j1"]

(***************************************************************************)
(* Session issuance properties                                              *)
(***************************************************************************)
\* the key issuance must use: the dedicated secret when set, else the operator password
IssuanceKey == IF authSecret # "" THEN authSecret ELSE adminPassword
Unconfigured == authSecret = "" /\ adminPassword = ""

\* C21: a session is issued under the dedicated server secret when it is set
\* and otherwise under the operator password; when neither is configured a
\* login is answered 500, produces no token, changes nothing else, and every
\* verification made in that configuration returns false.
C21_IssuanceKeyAndUnconfiguredFailure ==
  [][/\ \A c \in cookieJar' \ cookieJar :
          /\ IssuanceKey # ""
          /\ c.token = base64UrlEncode([iat |-> now, exp |-> <<now + DEFAULT_TTL_SECONDS>>])
                       \o <<Dot>> \o <<Seg("mac", IssuanceKey, SubSeq(c.token, 1, 1), NoJson)>>
          /\ lastLogin' = 200
     /\ Unconfigured =>
          /\ cookieJar' = cookieJar
          /\ lastLogin' \in {lastLogin, 500}
          /\ lastCheck' # lastCheck => ~lastCheck'[1].result
          /\ lastLogin' # lastLogin => UNCHANGED <<authSecret, adminPassword, now, lastCheck>>]_vars

C21_Witness ==
  /\ Unconfigured
  /\ lastLogin = 500
  /\ \E c \in cookieJar :
       /\ lastCheck = <<[token |-> c.token, result |-> FALSE, at |-> c.iat, secret |-> ""]>>
       /\ c.token[3].key = "pw"

(***************************************************************************)
(* Attempt ordering properties                                              *)
(***************************************************************************)
\* C22: within one run of the failover runner at most one attempt is in
\* flight at any time, and the attempt on the next platform starts only after
\* the outcome of the previous attempt is known.
C22_AttemptsStrictlySequential ==
  /\ [](Cardinality(inFlight) <= 1 /\ inFlight \subseteq {i})
  /\ [][\A k \in inFlight' \ inFlight :
          /\ inFlight = {}
          /\ k = i
          /\ Len(calls) = k
          /\ \A j \in 1..Len(calls) : ~calls[j].ok]_vars

C22_Witness ==
  /\ runState = "running"
  /\ Len(platforms) = 3
  /\ inFlight = {2}
  /\ Len(errors) = 2
  /\ \A k \in 1..2 : clients[platforms[calls[k].pos]] # 0

(***************************************************************************)
(* Fill-to-target round properties                                          *)
(* GeminiAiService keeps the attempts of a round in tasks and counts them   *)
(* in attempts; GeminiRunner launches one failover run per loop turn and    *)
(* counts the turns in imageIndex.                                          *)
(***************************************************************************)
ServerSide == runState # "idle"
RoundInProgress == genState = "await"
RoundStarts ==
  IF ServerSide THEN <<startPlatformIndex>> ELSE [idx \in 1..Len(tasks) |-> tasks[idx].start]
LaunchedBefore == IF ServerSide THEN imageIndex ELSE attempts
Shortfall == DesiredCount(imageCount) - Len(generatedImages)

\* C23: every round launches exactly desiredCount - len(collected) attempts,
\* the attempt with offset idx starts its failover run at platform index
\* (attempts + idx) mod platformCount, attempts being the number launched in
\* all earlier rounds, and after the round attempts has grown by exactly the
\* number launched.
C23_RoundSizeAndRotation ==
  /\ [](RoundInProgress =>
          /\ Len(RoundStarts) = Shortfall
          /\ \A idx \in 1..Len(RoundStarts) :
               RoundStarts[idx] = (LaunchedBefore + (idx - 1)) % Len(platforms))
  /\ [][RoundInProgress /\ LaunchedBefore' # LaunchedBefore =>
          LaunchedBefore' = LaunchedBefore + Len(RoundStarts)]_vars

\* the attempts of the call that have settled so far
AttemptsSettled ==
  IF ServerSide THEN imageIndex + (IF genState = "thrown" THEN 1 ELSE 0)
  ELSE attempts + Cardinality({k \in 1..Len(tasks) : tasks[k].status # "pending"})
\* the artifacts of the attempts of the round that succeeded
RoundFulfilled ==
  IF ServerSide
  THEN IF runState = "returned" /\ runResult[1].response = "image" THEN <<[pos |-> runResult[1].pos]>> ELSE <<>>
  ELSE fulfilledOf(tasks)
AllSettled ==
  IF ServerSide THEN runState \in {"returned", "thrown"}
  ELSE \A k \in 1..Len(tasks) : tasks[k].status # "pending"
FailedByAttempts == genState = "thrown" /\ genThrown[1].kind # "config"

\* C24: the attempts of a round run concurrently and the round completes only
\* when every one of them has settled; a failed attempt neither cancels nor
\* discards the other attempts of its round (the call does not fail before
\* the desiredCount attempts of its first round have settled, and a settled
\* attempt keeps its outcome while the others settle), every successful
\* artifact of the round is appended to collected, and the next round starts
\* only after the round has completed.
C24_RoundSettlesWholeBeforeNext ==
  /\ [](FailedByAttempts => AttemptsSettled >= DesiredCount(imageCount))
  /\ [][RoundInProgress =>
          /\ generatedImages' # generatedImages \/ ~RoundInProgress' \/ LaunchedBefore' # LaunchedBefore
               => AllSettled /\ generatedImages' = generatedImages \o RoundFulfilled
          /\ RoundInProgress' /\ LaunchedBefore' = LaunchedBefore /\ ~ServerSide
               => /\ Len(tasks') = Len(tasks)
                  /\ \A k \in 1..Len(tasks) : tasks[k].status # "pending" => tasks'[k] = tasks[k]]_vars

(***************************************************************************)
(* Attempt budget properties                                                *)
(***************************************************************************)
\* the ceiling the operator configured, the default when none is configured
ConfiguredCeiling ==
  IF envMaxAttempts = <<>> THEN DEFAULT_FILL_MAX_TOTAL_ATTEMPTS ELSE envMaxAttempts[1]
AttemptsLaunched == attempts + Len(tasks)

\* C25: a configured maxAttempts below desiredCount is rejected with a
\* configuration error before any attempt is launched; otherwise the number
\* of attempts launched by one generate call never exceeds maxAttempts.
C25_BudgetEnforced ==
  genState # "entry" =>
    IF ConfiguredCeiling < DesiredCount(imageCount)
    THEN /\ genState = "thrown"
         /\ genThrown[1].kind = "config"
         /\ AttemptsLaunched = 0
         /\ generatedImages = <<>>
    ELSE AttemptsLaunched <= ConfiguredCeiling

\* the round being completed holds an attempt whose response carried no artifact
NoArtifactInRound ==
  /\ RoundInProgress
  /\ IF ServerSide THEN runState = "returned" /\ runResult[1].response # "image"
     ELSE \E k \in 1..Len(tasks) : tasks[k].reason = "no image data"

\* C26: an attempt whose upstream response contains no artifact is a failed
\* attempt: it adds nothing to collected, it counts against the attempt
\* budget, and it alone does not fail the generate call (the call fails only
\* when the budget leaves no room for the attempts still needed).
C26_NoArtifactIsFailedAttempt ==
  /\ [](\A k \in 1..Len(tasks) : tasks[k].reason = "no image data" => tasks[k].status = "rejected")
  /\ [][NoArtifactInRound /\ (genState' # genState \/ LaunchedBefore' # LaunchedBefore) =>
          /\ generatedImages' = generatedImages \o RoundFulfilled
          /\ ~ServerSide => attempts' = attempts + Len(tasks) /\ Len(fillErrors') > Len(fillErrors)
          /\ genState' = "thrown" =>
               AttemptsSettled' + Shortfall' > MaxTotalAttempts(envMaxAttempts)]_vars

(***************************************************************************)
(* Backoff properties                                                       *)
(***************************************************************************)
\* C27: a backoff delay is taken only when, after a round, collected is still
\* short of desiredCount and attempts remain so that another round follows;
\* no delay precedes a successful return or a budget-exhausted failure; every
\* delay is at most 2000 ms and non-decreasing in the attempt count.
C27_BackoffOnlyBeforeAnotherRound ==
  /\ [](/\ delayMs <= 2000
        /\ genState = "backoff" <=> delayMs > 0
        /\ genState = "backoff" => Shortfall > 0 /\ delayMs = backoffDelay(attempts)
        /\ \A a \in 0..DEFAULT_FILL_MAX_TOTAL_ATTEMPTS : backoffDelay(a) <= backoffDelay(a + 1))
  /\ [][genState = "backoff" /\ genState' # "backoff" => genState' = "await" /\ tasks' # <<>>]_vars

(***************************************************************************)
(* Termination properties                                                   *)
(***************************************************************************)
\* C28: every upstream invocation made by an operation carries a per-call
\* timeout, so every failover run eventually returns a result or raises the
\* aggregate error, even when a platform never responds.
C28_EveryCallTimedAndRunEnds ==
  /\ [](inFlight # {} => callTimeout(operation) # <<>>)
  /\ <>(runState \in {"returned", "thrown"})

(***************************************************************************)
(* Client cache properties                                                  *)
(***************************************************************************)
\* C29: for each platform id at most one client is ever constructed, every
\* later use of that platform (across attempts and requests, for the process
\* lifetime) reuses that same client, and the client stays bound to that
\* platform's base URL and credential.
C29_OneClientPerPlatformId ==
  /\ \A id \in PlatformIds : constructed[id] <= 1
  /\ \A k \in 1..Len(calls) : calls[k].client = calls[k].pos


(***************************************************************************)
(* Task completion                                                          *)
(***************************************************************************)
IsRunning(id) == HasTask(taskList, id) /\ TaskOf(taskList, id).status = "running"

Settled(id) == HasTask(taskList, id) /\ TaskOf(taskList, id).status \in {"succeeded", "failed"}

\* C30: when every operation settles, every task that has entered running
\* eventually reaches a terminal status, succeeded when its operation returned
\* a result and failed with the aggregate message when it raised; while
\* running it is neither canceled nor removed, and once succeeded or failed
\* it never takes another status.
C30_RunningTaskSettlesOnce ==
  /\ \A id \in TaskIds : IsRunning(id) ~> Settled(id)
  /\ [][\A id \in TaskIds :
          /\ IsRunning(id) =>
               /\ HasTask(taskList', id)
               /\ LET t == TaskOf(taskList', id)
                  IN \/ t.status = "running"
                     \/ /\ t.status = "succeeded"
                        /\ lastOp' = [op |-> "succeed", id |-> id, accepted |-> TRUE]
                     \/ /\ t.status = "failed"
                        /\ t.error = "aggregate message"
                        /\ lastOp' = [op |-> "fail", id |-> id, accepted |-> TRUE]
          /\ (Settled(id) /\ HasTask(taskList', id)) =>
               TaskOf(taskList', id) = TaskOf(taskList, id)]_vars

C30_Witness ==
  /\ lastOp.op = "fail"
  /\ lastOp.accepted
  /\ Settled(lastOp.id)
  /\ TaskOf(taskList, lastOp.id).error = "aggregate message"


(***************************************************************************)
(* Stateless verification properties                                        *)
(***************************************************************************)
PresentedSoFar ==
  {c.token : c \in cookieJar} \cup (IF lastCheck # <<>> THEN {lastCheck[1].token} ELSE {})

\* C31: the verdict on a token depends only on the token, the configured
\* secret and the time: a login or a logout (any step that leaves the secret
\* and the clock alone) changes the verdict of no token; a logout answers with
\* an empty cookie of Max-Age=0 and nothing else, so a token issued before the
\* logout is still accepted under its secret until it expires.
C31_VerificationIsStateless ==
  /\ [](lastLogout # <<>> =>
          /\ lastLogout[1].setCookie.value = <<>>
          /\ lastLogout[1].setCookie.maxAge = 0
          /\ \A c \in lastLogout[1].issued :
               (getSecret = c.secret /\ now < c.iat + c.ttl) => isLoggedIn(c.token))
  /\ [][\A tok \in PresentedSoFar :
          (getSecret' = getSecret /\ now' = now) => (isLoggedIn(tok)' <=> isLoggedIn(tok))]_vars
  /\ [][lastLogout' # lastLogout =>
          UNCHANGED <<authSecret, adminPassword, now, ticks, cookieJar, lastLogin, lastCheck>>]_vars

C31_Witness ==
  /\ lastLogout # <<>>
  /\ lastCheck # <<>>
  /\ lastCheck[1].result
  /\ lastCheck[1].at > lastLogout[1].at
  /\ \E c \in lastLogout[1].issued : c.token = lastCheck[1].token


(***************************************************************************)
(* Registry content properties                                              *)
(***************************************************************************)
Listed == getGeminiPlatforms(configFile)

\* the number of "/" a URL ends with
RECURSIVE TrailingSeparators(_)
TrailingSeparators(url) ==
  IF url # <<>> /\ url[Len(url)] = "/" THEN 1 + TrailingSeparators(SubSeq(url, 1, Len(url) - 1)) ELSE 0

\* C32: every platform the registry lists has a non-empty baseUrl and a
\* non-empty model, and its baseUrl ends with exactly one trailing separator
\* whatever form the submitted URL had.
C32_ListedUrlsEndWithOneSeparator ==
  \A k \in 1..Len(Listed) :
    /\ Listed[k].baseUrl # <<>>
    /\ Listed[k].model # <<>>
    /\ TrailingSeparators(Listed[k].baseUrl) = 1


\* C36: after a successful upsert the registry lists exactly the submitted
\* platforms in the submitted order: entry k goes by the id of the k-th
\* submitted entry with its baseUrl and model, every stored platform whose id
\* is not in the submission is gone, and nothing outside the submission stays.
C36_UpsertReplacesWholeList ==
  IsUpsert /\ Accepted =>
    /\ Len(Listed) = Len(Submitted)
    /\ \A k \in 1..Len(Submitted) :
         /\ Listed[k].id = IdOf(Submitted, k)
         /\ Listed[k].baseUrl = WithSeparator(Given(Submitted[k].baseUrl))
         /\ Listed[k].model = Given(Submitted[k].model)
    /\ Listed = configFile
    /\ \A id \in StoredIds(StoredBefore) :
         id \notin {IdOf(Submitted, k) : k \in 1..Len(Submitted)} => id \notin StoredIds(Listed)

C36_Witness ==
  /\ IsUpsert
  /\ Accepted
  /\ Len(StoredBefore) = 2
  /\ Len(Submitted) = 1
  /\ \E id \in StoredIds(StoredBefore) : id \notin StoredIds(Listed)


\* C37: after any sequence of successful upserts the ids of the platforms in
\* the registry are pairwise distinct, whether they were submitted or derived.
C37_StoredIdsPairwiseDistinct ==
  \A j \in 1..Len(Listed) : \A k \in 1..Len(Listed) : j # k => Listed[j].id # Listed[k].id


(***************************************************************************)
(* Concurrent upsert properties                                             *)
(***************************************************************************)
UpsertDone(r) == upsertRuns[r].pc \in {"returned", "thrown"}
UpsertAccepted(r) == upsertRuns[r].pc = "returned"

\* the registry and the two verdicts when `first` runs to its end before `second` starts
SerialOutcome(first, second) ==
  LET one == upsertGeminiPlatforms(upsertRuns[first].input, upsertBase)
      two == upsertGeminiPlatforms(upsertRuns[second].input, one.file)
  IN [file |-> two.file, accepted |-> [r \in {first, second} |->
                                         IF r = first THEN one.error = <<>> ELSE two.error = <<>>]]

InterleavedOutcome == [file |-> configFile, accepted |-> [r \in UpsertRequests |-> UpsertAccepted(r)]]

\* C33: once two upserts whose steps interleaved at their file reads and
\* writes have both ended, the registry and the two accept/reject verdicts
\* are those of one of the two serial orders of the requests.
C33_InterleavedUpsertsSerializable ==
  (\A r \in UpsertRequests : UpsertDone(r)) =>
    \/ InterleavedOutcome = SerialOutcome("r1", "r2")
    \/ InterleavedOutcome = SerialOutcome("r2", "r1")


(***************************************************************************)
(* Probe outcome properties                                                 *)
(***************************************************************************)
\* the status appended by the step, when the step is a turn of the loop of check c
Appended(c, before, after) == after[c].next[Len(before[c].next) + 1]

C35_PeriodAtLeastFloor ==
  monitorTimer # <<>> => monitorTimer[1].period >= 5000


(***************************************************************************)
(* Check overlap and snapshot content properties                            *)
(***************************************************************************)
ProbeInFlight(c) == checks[c].state = "running" /\ Len(checks[c].next) < Len(checks[c].platforms)

\* C38: health checks never overlap: no checkOnce starts while another one of
\* the same monitor is in progress, so at any time each platform has at most
\* one probe in flight.
C38_ChecksNeverOverlap ==
  /\ \A c, d \in CheckSources : checks[c].state = "running" /\ checks[d].state = "running" => c = d
  /\ \A c, d \in CheckSources :
       ProbeInFlight(c) /\ ProbeInFlight(d) /\ probeTarget(checks[c]).id = probeTarget(checks[d]).id => c = d

SnapshotIds == {id \in MonitorIds : statusById[id] # <<>>}
LoadedIds(c) == {checks[c].platforms[k].id : k \in 1..Len(checks[c].platforms)}

\* C39: when a checkOnce completes, the platform ids of the snapshot are the
\* platform ids of the list that check loaded: no entry remains for a
\* platform that has been removed from the registry.
C39_SnapshotMatchesLoadedList ==
  [][\A c \in CheckSources :
       (checks[c].state = "running" /\ checks'[c].state = "returned") => SnapshotIds' = LoadedIds(c)]_vars

====
